---------------------------- MODULE Spec2Model ----------------------------
(***************************************************************************)
(* lab-lens: retrieval-augmented question answering.                       *)
(*                                                                         *)
(* Spec      : one QA system instance (FileQA or PatientQA) with its       *)
(*             RAGSystem; documents are loaded and questions are asked.    *)
(* SpecStore : FirestoreStore.replace_chunks / load_chunks on one chat's   *)
(*             chunk collection.                                           *)
(* SpecWeb   : the Streamlit flow of file_qa_web.py that exports the       *)
(*             index, persists it and restores it into a new QA system.    *)
(*                                                                         *)
(* Scores are cosine similarities in hundredths (0.3 is 30).               *)
(***************************************************************************)
EXTENDS Integers, Sequences, FiniteSets, TLC

VARIABLES
    \* ---- the QA system (Spec) ----
    system,                \* "FileQA" or "PatientQA": the class of the instance
    gemini,                \* self.gemini is not None
    allow_external_calls,  \* self.allow_external_calls
    privacy_mode,          \* self.privacy_mode
    rag_k,                 \* self.rag_k
    self_hadm_id,          \* PatientQA.hadm_id (NoHadm is None)
    GEMINI_AVAILABLE,      \* module flag of file_qa.py
    FAISS_AVAILABLE,       \* module flag of file_qa.py
    rag,                   \* self.rag: chunks, metadata, embedding model, index
    pc,                    \* "idle", or "returned", "loaded", "summarized" after a call
    result,                \* the dictionary returned by the last ask_question
    retrieve_calls,        \* the calls of rag.retrieve made by the last ask_question
    document_context,      \* the context assembled by the last ask_question
    llm_calls,             \* the external generation calls of the last ask_question
    asked_hadm_id,         \* the hadm_id argument of the last ask_question
    load_result,           \* the dictionary the last load_text returned, and its text
    \* ---- one chat's chunks in Firestore (SpecStore) ----
    fs_docs,               \* the chunks collection: document id -> fields
    chunk_count,           \* the chat document's chunk_count
    rp,                    \* the frame of replace_chunks: arguments and position
    store_loaded,          \* what the last load_chunks returned
    clock,                 \* _utcnow_iso(), counted in calls of replace_chunks
    \* ---- the Streamlit session of file_qa_web.py (SpecWeb) ----
    session,               \* st.session_state: chats, current chat, chat of the QA system
    web_rag,               \* the cached index of st.session_state.qa_system.rag
    chat_chunks,           \* Firestore: chat id -> chunks collection
    local_docs_by_chat,    \* st.session_state.local_docs_by_chat
    exported,              \* chat id -> what export_cached_index returned at the last load
    web_asked,             \* the session and the index when the last question was asked
    \* ---- VectorDatabase of vector_db.py (SpecVdb) ----
    collection,            \* self.collection: the documents of the ChromaDB collection
    vdb_out,               \* the last call of add_documents or query and what it gave
    \* ---- the summarizer handle of model_deployment/api/app.py (SpecApi) ----
    summarizer,            \* the global handle: NoSummarizer or the instance
    summarizer_init_lock,  \* the thread that holds the lock, or NoThread
    tpc,                   \* thread -> where it is in get_or_init_summarizer
    got,                   \* thread -> what its last call returned
    constructed,           \* constructions of MedicalSummarizer that succeeded
    failures,              \* constructions of MedicalSummarizer that raised
    \* ---- DocumentProcessor of document_processor.py (SpecDoc) ----
    GEMINI_VISION_AVAILABLE, \* module flag of document_processor.py
    OCR_AVAILABLE,         \* module flag of document_processor.py
    doc_processor,         \* the call that constructs the DocumentProcessor and what it gave
    vision_calls,          \* images sent to Gemini Vision
    processed,             \* what _process_image_file returned, call by call
    \* ---- InferenceMonitor of monitoring/model_monitoring.py (SpecMon) ----
    mon_enabled,           \* self.enabled
    mon,                   \* total, errors, the n of each OnlineStats, len(latency._vals)
    mon_lock,              \* the thread that holds self._lock, or NoThread
    mpc,                   \* thread -> where it is in record or status
    marg,                  \* thread -> the success argument of its call of record
    mstatus,               \* thread -> what its last status() returned
    mdone,                 \* calls of record that returned, and those with success = False
    \* ---- an exception on its way through safe_execute wrappers (SpecExc) ----
    exc_chain,             \* the decorated functions of the last call, innermost first
    exc_trail              \* the exception raised, and what each wrapper raised for it

qaVars == <<system, gemini, allow_external_calls, privacy_mode, rag_k, self_hadm_id,
            GEMINI_AVAILABLE, FAISS_AVAILABLE, rag, pc, result, retrieve_calls,
            document_context, llm_calls, asked_hadm_id, load_result>>

storeVars == <<fs_docs, chunk_count, rp, store_loaded, clock>>

webVars == <<session, web_rag, chat_chunks, local_docs_by_chat, exported, web_asked>>

vdbVars == <<collection, vdb_out>>

apiVars == <<summarizer, summarizer_init_lock, tpc, got, constructed, failures>>

docVars == <<GEMINI_VISION_AVAILABLE, OCR_AVAILABLE, doc_processor, vision_calls, processed>>

monVars == <<mon_enabled, mon, mon_lock, mpc, marg, mstatus, mdone>>

excVars == <<exc_chain, exc_trail>>

vars == <<qaVars, storeVars, webVars, vdbVars, apiVars, docVars, monVars, excVars>>

----------------------------------------------------------------------------
\* Bounds of the model.
MaxChunks == 4        \* most chunks a loaded corpus has
MaxK == 6             \* largest configured rag_k
MaxStoreChunks == 11  \* most chunks handed to replace_chunks
SmallBatch == 4       \* a batch_size below the number of chunks
MaxReplaces == 2      \* calls of replace_chunks in one behaviour
MaxChats == 2         \* chats of one session
MaxVdbDocs == 3       \* most documents of the ChromaDB collection
MaxQueries == 2       \* most query embeddings of one query call
MaxThreads == 3       \* request threads that call get_or_init_summarizer
MaxFailures == 2      \* constructions of MedicalSummarizer that raise
MaxImages == 3        \* image files one DocumentProcessor processes
MaxMonThreads == 2    \* request threads that call record or status
MaxRecords == 3       \* calls of record in one behaviour

\* Program constants.
UnitScore == 100         \* "score = 1.0 - distance"
GoodScore == 20          \* "score > 0.2"
WeakTopAll == MaxChunks  \* mutant of WeakTopN: every weak chunk is kept
WeakTopN == 3            \* retrieved_chunks[:3]
SampleMax == 3           \* min(3, len(self.rag.chunks))
LocalKCap == 5           \* min(self.rag_k, 5)
ExcerptMax == 3          \* safe_sources[:3]
ExcerptChars == 600      \* s.get('chunk','')[:600]
PatientMinScore == 30    \* PatientQA: min_score=0.3
DefaultBatchSize == 200  \* replace_chunks: batch_size: int = 200
ReservoirMaxLen == 512   \* LatencyReservoir: maxlen: int = 512
LoadLimit == 5000        \* load_chunks: limit: int = 5000
Thresholds == <<30, 20, 10, 0>>

NoHadm == 0
NoChat == 0              \* st.session_state.qa_chat_id = None
NoThread == 0            \* no thread holds the lock
NoName == "<none>"

\* The similarity of a question to one chunk: one value in every band the
\* thresholds and the good-match test tell apart.
Scores == {-5, 5, 15, 20, 25, 35}
RagKs == {2, MaxK}
Hadms == {1, 2}
QuestionTexts == {[body |-> 0, mark |-> "none"], [body |-> 0, mark |-> "raw"]}

----------------------------------------------------------------------------
\* Texts.  A text is a body with a mark saying whether it carries a personal
\* identifier in the clear ("raw"), one replaced by a [REDACTED_*] token
\* ("redacted"), or none.

redact_text(t) ==
    IF t.mark = "raw" THEN [t EXCEPT !.mark = "redacted"] ELSE t

\* The pool the documents are cut from: chunk i of a loaded corpus.
PoolText(i) == [body |-> i, mark |-> IF i % 2 = 0 THEN "raw" ELSE "none"]
PoolMeta(i) ==
    [document_name |-> IF i = 1 THEN NoName ELSE IF i <= 3 THEN "a.pdf" ELSE "b.pdf",
     hadm_id |-> IF i % 2 = 1 THEN 1 ELSE 2]

Min(a, b) == IF a <= b THEN a ELSE b

\* The length of a text in characters: chunks shorter than an excerpt, just
\* below its length, and longer.  A [REDACTED_*] token is longer than the
\* identifier it stands for.
PoolChars(i) == IF i % 3 = 1 THEN 900 ELSE IF i % 3 = 2 THEN 595 ELSE 450
RedactionGrowth == 10
Chars(t) == PoolChars(t.body) + (IF t.mark = "redacted" THEN RedactionGrowth ELSE 0)

Prefix(s, n) == SubSeq(s, 1, Min(n, Len(s)))

\* Injective sequences of length n over 1..m: the values of random.sample.
Samples(m, n) ==
    {s \in [1..n -> 1..m] : \A i, j \in 1..n : i # j => s[i] # s[j]}

----------------------------------------------------------------------------
\* RAGSystem (src/rag/rag_system.py).

\* A RAGSystem without documents.
EmptyRag(model) ==
    [chunks |-> <<>>, metadata |-> <<>>, embedding_model |-> model,
     index |-> FALSE, embeddings_normalized |-> 0]

\* The n chunks of the pool whose record passes the hadm_id given at
\* construction, with the index built by the backend that was chosen.
LoadedRag(model, n, backend, hadm) ==
    LET keep == SelectSeq([i \in 1..n |-> i],
                          LAMBDA i : hadm = NoHadm \/ PoolMeta(i).hadm_id = hadm)
    IN  [chunks |-> [j \in 1..Len(keep) |-> PoolText(keep[j])],
         metadata |-> [j \in 1..Len(keep) |-> PoolMeta(keep[j])],
         embedding_model |-> model,
         index |-> (backend = "faiss" /\ Len(keep) > 0),
         embeddings_normalized |-> IF backend = "numpy" THEN Len(keep) ELSE 0]

\* retrieve can search: the embedding model is there and an index was built.
RagReady(rg) ==
    rg.embedding_model /\ (rg.index \/ rg.embeddings_normalized > 0)

\* The chunk indices of S, best score first, the lower index first on a tie.
RECURSIVE RankFrom(_, _)
RankFrom(S, sim) ==
    IF S = {} THEN <<>>
    ELSE LET b == CHOOSE i \in S :
                    \A j \in S : sim[i] > sim[j] \/ (sim[i] = sim[j] /\ i <= j)
         IN  <<b>> \o RankFrom(S \ {b}, sim)

\* retrieve(query, k, min_score, hadm_id_filter) of a ready RAGSystem: the k
\* best candidates, without those that score below min_score.  sim[i] is the
\* similarity of the query to chunk i.
Retrieve(rg, sim, k, min_score, hadm_filter) ==
    LET N == Len(rg.chunks)
        cand == {i \in 1..N : hadm_filter = NoHadm \/ rg.metadata[i].hadm_id = hadm_filter}
        topk == Prefix(RankFrom(cand, sim), k)
        kept == SelectSeq(topk, LAMBDA i : sim[i] >= min_score)
    IN  [j \in 1..Len(kept) |->
            [idx |-> kept[j], chunk |-> rg.chunks[kept[j]], score |-> sim[kept[j]],
             metadata |-> rg.metadata[kept[j]]]]

\* The record of one call of retrieve: its arguments, whether the RAGSystem
\* was ready, how many results it returned, and the set holding the best score
\* among the candidates of the search (empty without candidates).
RetrieveCall(rg, sim, k, min_score, hadm_filter) ==
    LET cand == {i \in 1..Len(rg.chunks) :
                    hadm_filter = NoHadm \/ rg.metadata[i].hadm_id = hadm_filter}
    IN  [k |-> k, min_score |-> min_score, ready |-> RagReady(rg),
         returned |-> IF rg.chunks # <<>> /\ ~RagReady(rg) THEN 0
                      ELSE Len(Retrieve(rg, sim, k, min_score, hadm_filter)),
         best |-> {sim[i] : i \in {i \in cand : \A j \in cand : sim[i] >= sim[j]}}]

----------------------------------------------------------------------------
\* src/privacy/redaction.py

\* Mutant of redact_sources: the list is built by inserting at the front.
redact_sources_reversed(sources) ==
    [i \in 1..Len(sources) |->
        [sources[Len(sources) + 1 - i] EXCEPT !.chunk = redact_text(@)]]

redact_sources(sources) ==
    [i \in 1..Len(sources) |-> [sources[i] EXCEPT !.chunk = redact_text(@)]]

----------------------------------------------------------------------------
\* FileQA.load_text (src/rag/file_qa.py).

\* The texts handed to load_text, with the number of chunks the chunker of
\* load_custom_documents makes of them: none of an empty or whitespace-only
\* text.
LoadTexts ==
    {[kind |-> "empty", chunks |-> 0], [kind |-> "whitespace", chunks |-> 0]}
        \cup {[kind |-> "text", chunks |-> n] : n \in 1..MaxChunks}

NoLoadResult == [text |-> "none"]

\* Mutant of LoadTextResult: the check "if not self.rag.chunks" is missing.
LoadTextResultNoChunkCheck(text, had_chunks, rg) ==
    [text |-> text.kind, had_chunks |-> had_chunks,
     success |-> (rg.index \/ rg.embeddings_normalized > 0),
     error |-> IF rg.index \/ rg.embeddings_normalized > 0 THEN "none"
               ELSE "index_not_built",
     num_chunks |-> Len(rg.chunks)]

\* The dictionary load_text returns when load_custom_documents left the
\* RAGSystem as rg; had_chunks says whether chunks were loaded before.
LoadTextResult(text, had_chunks, rg) ==
    IF rg.chunks = <<>>
    THEN [text |-> text.kind, had_chunks |-> had_chunks, success |-> FALSE,
          error |-> "no_chunks", num_chunks |-> 0]
    ELSE IF ~(rg.index \/ rg.embeddings_normalized > 0)
    THEN [text |-> text.kind, had_chunks |-> had_chunks, success |-> FALSE,
          error |-> "index_not_built", num_chunks |-> 0]
    ELSE [text |-> text.kind, had_chunks |-> had_chunks, success |-> TRUE,
          error |-> "none", num_chunks |-> Len(rg.chunks)]

----------------------------------------------------------------------------
\* FileQA.ask_question (src/rag/file_qa.py).

MetaName(m) == IF m.document_name = NoName THEN "Document" ELSE m.document_name

\* Mutant of ContextParts: every tag carries the position as its ordinal.
ContextPartsAllNumbered(items, label, numbered) ==
    [i \in 1..Len(items) |->
        [label |-> label, ordinal |-> i,
         document_name |-> MetaName(items[i].metadata),
         text |-> items[i].chunk, idx |-> items[i].idx]]

\* One "[tag]\nchunk" part of the context per item; ordinal 0 is a tag
\* without an ordinal.
ContextParts(items, label, numbered) ==
    [i \in 1..Len(items) |->
        [label |-> label, ordinal |-> IF numbered THEN i ELSE 0,
         document_name |-> MetaName(items[i].metadata),
         text |-> items[i].chunk, idx |-> items[i].idx]]

RedactContext(ctx) ==
    [i \in 1..Len(ctx) |-> [ctx[i] EXCEPT !.text = redact_text(@)]]

\* Mutant of Ladder: the loop has no break and keeps the last result.
RECURSIVE LadderNoBreak(_, _, _, _, _)
LadderNoBreak(rg, sim, k, i, calls) ==
    IF i > Len(Thresholds)
    THEN [calls |-> calls,
          retrieved |-> Retrieve(rg, sim, k, Thresholds[Len(Thresholds)], NoHadm)]
    ELSE LadderNoBreak(rg, sim, k, i + 1,
                       Append(calls, RetrieveCall(rg, sim, k, Thresholds[i], NoHadm)))

\* for threshold in thresholds: retrieve; stop at the first non-empty result.
RECURSIVE Ladder(_, _, _, _, _)
Ladder(rg, sim, k, i, calls) ==
    IF i > Len(Thresholds) THEN [calls |-> calls, retrieved |-> <<>>]
    ELSE LET r == Retrieve(rg, sim, k, Thresholds[i], NoHadm)
             c == Append(calls, RetrieveCall(rg, sim, k, Thresholds[i], NoHadm))
         IN  IF r # <<>> THEN [calls |-> c, retrieved |-> r]
             ELSE Ladder(rg, sim, k, i + 1, c)

\* Mutant of GoodChunks: a score of exactly 0.2 counts as a good match.
GoodChunksInclusive(retrieved) == SelectSeq(retrieved, LAMBDA c : c.score >= GoodScore)

\* good_chunks = [c for c in retrieved_chunks if c.get("score", 0) > 0.2]
GoodChunks(retrieved) == SelectSeq(retrieved, LAMBDA c : c.score > GoodScore)

\* Mutant of SampledItems: the metadata is taken at the loop position.
SampledItemsByPosition(rg, sample) ==
    [j \in 1..Len(sample) |->
        [idx |-> sample[j], chunk |-> rg.chunks[sample[j]], metadata |-> rg.metadata[j]]]

\* The chunks and metadata at the sampled indices.
SampledItems(rg, sample) ==
    [j \in 1..Len(sample) |->
        [idx |-> sample[j], chunk |-> rg.chunks[sample[j]],
         metadata |-> rg.metadata[sample[j]]]]

\* Mutant of AssembleContext: without retrieved chunks every loaded chunk
\* goes into the context.
AssembleContextWholeCorpus(rg, retrieved, sample) ==
    IF retrieved # <<>>
    THEN IF GoodChunks(retrieved) # <<>>
         THEN ContextParts(GoodChunks(retrieved), "Source", TRUE)
         ELSE ContextParts(Prefix(retrieved, WeakTopN), "Source", TRUE)
    ELSE ContextParts(SampledItems(rg, [i \in 1..Len(rg.chunks) |-> i]),
                      "From document", FALSE)

\* The context assembled from the retrieved chunks, or from the sample when
\* nothing was retrieved.
AssembleContext(rg, retrieved, sample) ==
    IF retrieved # <<>>
    THEN IF GoodChunks(retrieved) # <<>>
         THEN ContextParts(GoodChunks(retrieved), "Source", TRUE)
         ELSE ContextParts(Prefix(retrieved, WeakTopN), "Source", TRUE)
    ELSE IF Len(rg.chunks) > 0
         THEN ContextParts(SampledItems(rg, sample), "From document", FALSE)
         ELSE <<>>

\* has_good_matches / retrieved_chunks decide the label.
AnswerSource(retrieved) ==
    IF retrieved # <<>> /\ GoodChunks(retrieved) # <<>> THEN "document"
    ELSE IF retrieved # <<>> THEN "document_and_knowledge"
    ELSE "general_knowledge"

\* A returned dictionary.  error and has_sources say whether the keys
\* 'error' and 'sources' are present; answer_source "absent" is a missing key.
\* excerpts are the chunk texts quoted in the answer of the local mode.
Outcome(answer, error, has_sources, sources, answer_source) ==
    [answer |-> answer, error |-> error, has_sources |-> has_sources,
     sources |-> sources, answer_source |-> answer_source, excerpts |-> <<>>]

NoResult == Outcome("none", FALSE, FALSE, <<>>, "absent")

\* What one call does: the dictionary it returns, its calls of rag.retrieve,
\* the context it assembled and the generation calls it made.
Done(res, calls, ctx, llm) ==
    [result |-> res, retrieve_calls |-> calls, document_context |-> ctx, llm_calls |-> llm]

\* Mutant of HasIndex: the check looks at the chunks, not at the index.
HasChunksOnly == Len(rag.chunks) > 0

\* has_faiss or has_numpy, as ask_question tests them.
HasIndex ==
    (FAISS_AVAILABLE /\ rag.index) \/ rag.embeddings_normalized > 0

\* The prompt chosen from document_context and has_good_matches.
PromptKind(ctx, retrieved) ==
    IF ctx # <<>> /\ retrieved # <<>> /\ GoodChunks(retrieved) # <<>> THEN "strong"
    ELSE IF ctx # <<>> THEN "weak"
    ELSE "general"

\* The generation call: the direct API call gets the prompt built from
\* question_for_llm and document_context_for_llm, the fallback gets question
\* and document_context.
GenerationCall(question, ctx, retrieved) ==
    IF GEMINI_AVAILABLE
    THEN [via |-> "generate_content", prompt |-> PromptKind(ctx, retrieved),
          question |-> IF privacy_mode THEN redact_text(question) ELSE question,
          context |-> IF privacy_mode /\ ctx # <<>> THEN RedactContext(ctx) ELSE ctx]
    ELSE IF ctx # <<>>
         THEN [via |-> "answer_question", prompt |-> "fallback",
               question |-> question, context |-> ctx]
         ELSE [via |-> "simple_prompt", prompt |-> "fallback",
               question |-> question, context |-> <<>>]

\* The part of ask_question after the readiness checks: the threshold
\* ladder, the context, the generation call and the returned dictionary.
AnswerFromDocuments(question, sim, gen_ok, sample) ==
    LET lad == Ladder(rag, sim, rag_k, 1, <<>>)
        retrieved == lad.retrieved
        ctx == AssembleContext(rag, retrieved, sample)
        safe_sources == IF privacy_mode THEN redact_sources(retrieved) ELSE retrieved
    IN  IF ~RagReady(rag)
        THEN Done(Outcome("retrieval_failed", TRUE, FALSE, <<>>, "absent"),
                  <<RetrieveCall(rag, sim, rag_k, Thresholds[1], NoHadm)>>,
                  <<>>, <<>>)
        ELSE IF gen_ok
        THEN Done(Outcome("generated", FALSE, TRUE, safe_sources, AnswerSource(retrieved)),
                  lad.calls, ctx, <<GenerationCall(question, ctx, retrieved)>>)
        ELSE Done(Outcome("generation_error", TRUE, TRUE, retrieved, "absent"),
                  lad.calls, ctx, <<GenerationCall(question, ctx, retrieved)>>)

\* Mutant of LocalExcerpts: every source is quoted.
LocalExcerptsOfAll(safe_sources) ==
    [i \in 1..Len(safe_sources) |->
        [idx |-> safe_sources[i].idx,
         chars |-> Min(Chars(safe_sources[i].chunk), ExcerptChars)]]

\* "- {s.get('chunk','')[:600]}..." for s in safe_sources[:3]
LocalExcerpts(safe_sources) ==
    [i \in 1..Min(ExcerptMax, Len(safe_sources)) |->
        [idx |-> safe_sources[i].idx,
         chars |-> Min(Chars(safe_sources[i].chunk), ExcerptChars)]]

\* The strict local mode of ask_question: one retrieval, excerpts, no
\* generation call.
AnswerLocally(sim) ==
    LET k == Min(rag_k, LocalKCap)
        retrieved == Retrieve(rag, sim, k, 0, NoHadm)
        safe_sources == IF privacy_mode THEN redact_sources(retrieved) ELSE retrieved
        call == RetrieveCall(rag, sim, k, 0, NoHadm)
    IN  IF ~RagReady(rag)
        THEN Done(Outcome("local_retrieval_failed", TRUE, FALSE, <<>>, "absent"),
                  <<call>>, <<>>, <<>>)
        ELSE IF safe_sources = <<>>
        THEN Done(Outcome("local_no_match", FALSE, TRUE, <<>>, "local_excerpts"),
                  <<call>>, <<>>, <<>>)
        ELSE Done([Outcome("local_excerpts", FALSE, TRUE, safe_sources, "local_excerpts")
                       EXCEPT !.excerpts = LocalExcerpts(safe_sources)],
                  <<call>>, <<>>, <<>>)

\* Mutant of AskQuestion: the "No documents loaded" return is missing.
AskQuestionNoDocumentsGuard(question, sim, gen_ok, sample) ==
    IF ~gemini
    THEN Done(Outcome("unavailable", TRUE, FALSE, <<>>, "absent"), <<>>, <<>>, <<>>)
    ELSE IF ~allow_external_calls
    THEN AnswerLocally(sim)
    ELSE AnswerFromDocuments(question, sim, gen_ok, sample)

\* Mutant of AskQuestion: the documents are checked before the Gemini model.
AskQuestionDocumentsFirst(question, sim, gen_ok, sample) ==
    IF rag.chunks = <<>>
    THEN Done(Outcome("no_documents", TRUE, FALSE, <<>>, "absent"), <<>>, <<>>, <<>>)
    ELSE IF ~gemini
    THEN Done(Outcome("unavailable", TRUE, FALSE, <<>>, "absent"), <<>>, <<>>, <<>>)
    ELSE IF ~allow_external_calls
    THEN AnswerLocally(sim)
    ELSE IF ~rag.embedding_model
    THEN Done(Outcome("embedding_not_initialized", TRUE, FALSE, <<>>, "absent"), <<>>, <<>>, <<>>)
    ELSE IF ~HasIndex
    THEN Done(Outcome("index_not_built", TRUE, FALSE, <<>>, "absent"), <<>>, <<>>, <<>>)
    ELSE AnswerFromDocuments(question, sim, gen_ok, sample)

\* ask_question(question).  sim is the similarity of the question to every
\* chunk, gen_ok whether the generation call returns, sample what
\* random.sample returns when it is called.
AskQuestion(question, sim, gen_ok, sample) ==
    IF ~gemini
    THEN Done(Outcome("unavailable", TRUE, FALSE, <<>>, "absent"), <<>>, <<>>, <<>>)
    ELSE IF rag.chunks = <<>>
    THEN Done(Outcome("no_documents", TRUE, FALSE, <<>>, "absent"), <<>>, <<>>, <<>>)
    ELSE IF ~allow_external_calls
    THEN AnswerLocally(sim)
    ELSE IF ~rag.embedding_model
    THEN Done(Outcome("embedding_not_initialized", TRUE, FALSE, <<>>, "absent"), <<>>, <<>>, <<>>)
    ELSE IF ~HasIndex
    THEN Done(Outcome("index_not_built", TRUE, FALSE, <<>>, "absent"), <<>>, <<>>, <<>>)
    ELSE AnswerFromDocuments(question, sim, gen_ok, sample)

----------------------------------------------------------------------------
\* FileQA.summarize_document (src/rag/file_qa.py).

\* The text argument: None, an empty string, or a text with a personal
\* identifier in it.
SummaryArgs == {"none", "empty", "given"}

\* The outcomes of the local MedicalSummarizer: it cannot be loaded, it
\* summarizes, it raises.
LocalSummarizers == {"unavailable", "ok", "raises"}

\* The text that is summarized, as its pieces: the loaded chunks joined, or
\* the argument.  _clean_pdf_text removes font codes and runs of whitespace
\* and leaves identifiers as they are.
SummaryText(text) ==
    IF text = "none" THEN rag.chunks
    ELSE IF text = "given" THEN <<[body |-> 0, mark |-> "raw"]>>
    ELSE <<>>

RedactPieces(text) == [i \in 1..Len(text) |-> redact_text(text[i])]

\* POST {"text": text} to LAB_LENS_API_URL/summarize.
ApiSummarizeCall(text) ==
    [via |-> "api_summarize", prompt |-> "none", document |-> text]

\* model.generate_content(summary_prompt): the prompt holds safe_text.
GeminiSummaryCall(text) ==
    [via |-> IF GEMINI_AVAILABLE THEN "generate_content" ELSE "model_generate_content",
     prompt |-> "summary",
     document |-> IF privacy_mode THEN RedactPieces(text) ELSE text]

\* summarize_document(text): gem_ok says whether Gemini gives an answer,
\* api_base whether LAB_LENS_API_URL is set, api_ok whether the API call
\* succeeds, local what the local summarizer does.
SummarizeDocument(text, gem_ok, api_base, api_ok, local) ==
    LET doc == SummaryText(text)
        gem_calls == IF gemini THEN <<GeminiSummaryCall(doc)>> ELSE <<>>
        api_calls == IF api_base THEN <<ApiSummarizeCall(doc)>> ELSE <<>>
        Fail(kind, calls) == Done(Outcome(kind, TRUE, FALSE, <<>>, "absent"), <<>>, <<>>, calls)
        Ok(kind, calls) == Done(Outcome(kind, FALSE, FALSE, <<>>, "absent"), <<>>, <<>>, calls)
    IN  IF text = "none" /\ rag.chunks = <<>>
        THEN Fail("summary_no_documents", <<>>)
        ELSE IF doc = <<>>
        THEN Fail("summary_no_text", <<>>)
        ELSE IF ~allow_external_calls
        THEN Ok("summary_local_excerpt", <<>>)
        ELSE IF gemini /\ gem_ok
        THEN Ok("summary_gemini", gem_calls)
        ELSE IF api_base /\ api_ok
        THEN Ok("summary_api", gem_calls \o api_calls)
        ELSE IF local = "unavailable"
        THEN Fail("summary_unavailable", gem_calls \o api_calls)
        ELSE IF local = "ok"
        THEN Ok("summary_local_model", gem_calls \o api_calls)
        ELSE Fail("summary_error", gem_calls \o api_calls)

----------------------------------------------------------------------------
\* DocumentProcessor (src/rag/document_processor.py) and its construction by
\* FileQA.__init__ (src/rag/file_qa.py).

\* The parameters of DocumentProcessor.__init__ after self.
DocumentProcessorParams == {"gemini_api_key"}

\* The keywords of the call DocumentProcessor(...) in FileQA.__init__.
FileQAKeywords == {"gemini_api_key", "allow_external_calls", "allow_gemini_vision"}

\* No DocumentProcessor was constructed and no image was processed.
NoDocumentProcessor ==
    /\ doc_processor = [state |-> "none", by |-> "none", privacy_mode |-> FALSE,
                        gemini_api_key |-> FALSE]
    /\ vision_calls = 0
    /\ processed = <<>>

InitDoc ==
    /\ GEMINI_VISION_AVAILABLE = TRUE
    /\ OCR_AVAILABLE = TRUE
    /\ NoDocumentProcessor

\* The call DocumentProcessor(**keywords): a keyword that is no parameter of
\* __init__ raises TypeError before the body runs; otherwise the instance
\* keeps gemini_api_key (whether a key was given).
NewDocumentProcessor(keywords, key) ==
    IF keywords \subseteq DocumentProcessorParams
    THEN [state |-> "constructed", gemini_api_key |-> key]
    ELSE [state |-> "TypeError", gemini_api_key |-> FALSE]

\* FileQA.__init__ constructs its document processor.
DocConstructByFileQA ==
    /\ doc_processor.state = "none"
    /\ \E privacy \in BOOLEAN, key \in BOOLEAN :
          LET dp == NewDocumentProcessor(FileQAKeywords, key)
          IN  doc_processor' = [state |-> dp.state, by |-> "FileQA",
                                privacy_mode |-> privacy,
                                gemini_api_key |-> dp.gemini_api_key]
    /\ UNCHANGED <<GEMINI_VISION_AVAILABLE, OCR_AVAILABLE, vision_calls, processed>>

\* DocumentProcessor(gemini_api_key=key), called by other code.
DocConstructDirectly ==
    /\ doc_processor.state = "none"
    /\ \E key \in BOOLEAN :
          LET dp == NewDocumentProcessor({"gemini_api_key"}, key)
          IN  doc_processor' = [state |-> dp.state, by |-> "direct",
                                privacy_mode |-> FALSE,
                                gemini_api_key |-> dp.gemini_api_key]
    /\ UNCHANGED <<GEMINI_VISION_AVAILABLE, OCR_AVAILABLE, vision_calls, processed>>

\* "if self.gemini_api_key and GEMINI_VISION_AVAILABLE"
VisionEnabled == doc_processor.gemini_api_key /\ GEMINI_VISION_AVAILABLE

\* _process_image_file: ocr is what pytesseract gives ("text", "empty",
\* "raises"), vision what _analyze_with_gemini_vision gives ("text" or
\* "none": it catches its own exceptions).
ProcessImageFile(ocr, vision) ==
    LET ocr_used == OCR_AVAILABLE /\ ocr = "text"
        vision_analysis == VisionEnabled /\ vision = "text"
    IN  [text |-> IF ocr_used /\ vision_analysis THEN "ocr_and_vision"
                  ELSE IF vision_analysis THEN "vision"
                  ELSE IF ocr_used THEN "ocr"
                  ELSE "placeholder",
         ocr_used |-> ocr_used, vision_analysis |-> vision_analysis]

\* process_file is called with an image file.
DocProcessImage ==
    /\ doc_processor.state = "constructed"
    /\ Len(processed) < MaxImages
    /\ \E ocr \in {"text", "empty", "raises"}, vision \in {"text", "none"} :
          processed' = Append(processed, ProcessImageFile(ocr, vision))
    /\ vision_calls' = IF VisionEnabled THEN vision_calls + 1 ELSE vision_calls
    /\ UNCHANGED <<GEMINI_VISION_AVAILABLE, OCR_AVAILABLE, doc_processor>>

----------------------------------------------------------------------------
\* InferenceMonitor (monitoring/model_monitoring.py).

MonThreads == 1..MaxMonThreads

\* The monitor as __init__ leaves it.
FreshMonitor ==
    [total |-> 0, errors |-> 0, input_chars |-> 0, input_words |-> 0,
     output_chars |-> 0, latency |-> 0]

NoStatus == [enabled |-> FALSE, read |-> FALSE]

NewMonitor ==
    /\ mon = FreshMonitor
    /\ mon_lock = NoThread
    /\ mpc = [t \in MonThreads |-> "idle"]
    /\ marg = [t \in MonThreads |-> TRUE]
    /\ mstatus = [t \in MonThreads |-> NoStatus]
    /\ mdone = [calls |-> 0, failed |-> 0]

InitMon ==
    /\ mon_enabled = TRUE
    /\ NewMonitor

\* LatencyReservoir.add: the length of _vals after one more value.
ReservoirAdd(len) ==
    IF len + 1 > ReservoirMaxLen THEN (len + 1) - ((len + 1) \div 2) ELSE len + 1

\* The statements of record inside "with self._lock", in their order.
RecordSteps == <<"total", "errors", "input_chars", "input_words", "output_chars", "latency">>

\* Mutant of LockIsFree: the lock does not exclude.
LockNeverHeld == TRUE

\* "with self._lock" waits until no thread holds the lock.
LockIsFree == mon_lock = NoThread

\* A thread calls record(success=...): a disabled monitor returns at once.
MonRecordCall(t) ==
    /\ mpc[t] = "idle"
    /\ mdone.calls + Cardinality({u \in MonThreads : mpc[u] \notin {"idle", "status_wait", "status_read"}})
          < MaxRecords
    /\ \E success \in BOOLEAN :
          /\ marg' = [marg EXCEPT ![t] = success]
          /\ IF mon_enabled
             THEN /\ mpc' = [mpc EXCEPT ![t] = "record_wait"]
                  /\ UNCHANGED mdone
             ELSE /\ mpc' = mpc
                  /\ mdone' = [calls |-> mdone.calls + 1,
                                failed |-> mdone.failed + (IF success THEN 0 ELSE 1)]
    /\ UNCHANGED <<mon_enabled, mon, mon_lock, mstatus>>

\* A thread calls status(): a disabled monitor returns {"enabled": False}.
MonStatusCall(t) ==
    /\ mpc[t] = "idle"
    /\ IF mon_enabled
       THEN /\ mpc' = [mpc EXCEPT ![t] = "status_wait"]
            /\ UNCHANGED mstatus
       ELSE /\ mpc' = mpc
            /\ mstatus' = [mstatus EXCEPT ![t] = NoStatus]
    /\ UNCHANGED <<mon_enabled, mon, mon_lock, marg, mdone>>

\* The thread enters "with self._lock".
MonAcquire(t) ==
    /\ mpc[t] \in {"record_wait", "status_wait"}
    /\ LockIsFree
    /\ mon_lock' = t
    /\ mpc' = [mpc EXCEPT ![t] = IF mpc[t] = "record_wait" THEN "total" ELSE "status_read"]
    /\ UNCHANGED <<mon_enabled, mon, marg, mstatus, mdone>>

\* The statement after this one, or the return.
AfterStep(step) ==
    IF step = "latency" THEN "record_return"
    ELSE RecordSteps[(CHOOSE i \in 1..Len(RecordSteps) : RecordSteps[i] = step) + 1]

\* One statement of record under the lock.
MonRecordStep(t) ==
    /\ mpc[t] \in {RecordSteps[i] : i \in 1..Len(RecordSteps)}
    /\ mon' = IF mpc[t] = "total" THEN [mon EXCEPT !.total = @ + 1]
              ELSE IF mpc[t] = "errors"
                   THEN [mon EXCEPT !.errors = IF marg[t] THEN @ ELSE @ + 1]
              ELSE IF mpc[t] = "input_chars" THEN [mon EXCEPT !.input_chars = @ + 1]
              ELSE IF mpc[t] = "input_words" THEN [mon EXCEPT !.input_words = @ + 1]
              ELSE IF mpc[t] = "output_chars" THEN [mon EXCEPT !.output_chars = @ + 1]
              ELSE [mon EXCEPT !.latency = ReservoirAdd(@)]
    /\ mpc' = [mpc EXCEPT ![t] = AfterStep(mpc[t])]
    /\ UNCHANGED <<mon_enabled, mon_lock, marg, mstatus, mdone>>

\* record returns its event and leaves the lock.
MonRecordReturn(t) ==
    /\ mpc[t] = "record_return"
    /\ mon_lock' = IF mon_lock = t THEN NoThread ELSE mon_lock
    /\ mpc' = [mpc EXCEPT ![t] = "idle"]
    /\ mdone' = [calls |-> mdone.calls + 1,
                  failed |-> mdone.failed + (IF marg[t] THEN 0 ELSE 1)]
    /\ UNCHANGED <<mon_enabled, mon, marg, mstatus>>

\* status builds its dictionary under the lock, returns it and leaves the
\* lock.
MonStatusReturn(t) ==
    /\ mpc[t] = "status_read"
    /\ mstatus' = [mstatus EXCEPT ![t] =
                      [enabled |-> TRUE, read |-> TRUE,
                       total |-> mon.total, errors |-> mon.errors,
                       input_chars |-> mon.input_chars, input_words |-> mon.input_words,
                       output_chars |-> mon.output_chars, sample_size |-> mon.latency]]
    /\ mon_lock' = IF mon_lock = t THEN NoThread ELSE mon_lock
    /\ mpc' = [mpc EXCEPT ![t] = "idle"]
    /\ UNCHANGED <<mon_enabled, mon, marg, mdone>>

----------------------------------------------------------------------------
\* PatientQA.ask_question (src/rag/patient_qa.py).

\* ask_question(question, hadm_id, include_full_context).
PatientAskQuestion(question, sim, hadm, include_full_context, gen_ok) ==
    LET filter_hadm_id == IF self_hadm_id # NoHadm THEN NoHadm ELSE hadm
        retrieved == Retrieve(rag, sim, rag_k, PatientMinScore, filter_hadm_id)
        call == RetrieveCall(rag, sim, rag_k, PatientMinScore, filter_hadm_id)
        record_hadm_id == IF self_hadm_id # NoHadm THEN self_hadm_id ELSE hadm
        ctx == ContextParts(retrieved, "Section", TRUE)
        gen == [via |-> "answer_question", prompt |-> "patient", question |-> question,
                context |-> ctx,
                full_record |-> (include_full_context /\ record_hadm_id # NoHadm)]
    IN  IF ~gemini
        THEN Done(Outcome("unavailable", TRUE, FALSE, <<>>, "absent"), <<>>, <<>>, <<>>)
        ELSE IF retrieved = <<>>
        THEN Done(Outcome("not_found", FALSE, TRUE, <<>>, "absent"), <<call>>, <<>>, <<>>)
        ELSE IF gen_ok
        THEN Done(Outcome("generated", FALSE, TRUE, retrieved, "absent"), <<call>>, ctx, <<gen>>)
        ELSE Done(Outcome("generation_error", TRUE, TRUE,
                          [i \in 1..Len(retrieved) |-> [metadata |-> retrieved[i].metadata]],
                          "absent"),
                  <<call>>, ctx, <<gen>>)

----------------------------------------------------------------------------
\* FirestoreStore (src/storage/firestore_store.py).

\* str(i): the decimal digits of i.
RECURSIVE DocId(_)
DocId(i) == IF i < 10 THEN <<i>> ELSE DocId(i \div 10) \o <<i % 10>>

\* a < b as strings: Firestore orders document ids as strings.
StringLess(a, b) ==
    \E k \in 1..(Len(a) + 1) :
        /\ k <= Len(b)
        /\ \A j \in 1..(k - 1) : j <= Len(b) /\ a[j] = b[j]
        /\ k = Len(a) + 1 \/ a[k] < b[k]

\* Mutant of IdLess: the ids are ordered as numbers.
IdLessNumeric(i, j) == i < j

\* order_by(document_id()): document i comes before document j.
IdLess(i, j) == StringLess(DocId(i), DocId(j))

\* The ids of S in the order of the query.
RECURSIVE OrderedIds(_)
OrderedIds(S) ==
    IF S = {} THEN <<>>
    ELSE LET first == CHOOSE i \in S : \A j \in S \ {i} : IdLess(i, j)
         IN  <<first>> \o OrderedIds(S \ {first})

\* The documents the write loop sets: one per position of
\* zip(chunks, embeddings, metadatas), with id str(i) counted from 0.
ZipLen(chunks, embeddings, metadatas) ==
    Min(Len(chunks), Min(Len(embeddings), Len(metadatas)))

ChunkDoc(chunks, embeddings, metadatas, i, now) ==
    [text |-> chunks[i + 1], embedding |-> embeddings[i + 1],
     metadata |-> metadatas[i + 1], ts |-> now]

\* docs after batch.set for the positions from..to-1 was committed.
WithDocs(docs, chunks, embeddings, metadatas, from, to, now) ==
    [i \in DOMAIN docs \cup from..(to - 1) |->
        IF i \in from..(to - 1) THEN ChunkDoc(chunks, embeddings, metadatas, i, now)
        ELSE docs[i]]

\* docs after batch.delete for the ids in gone was committed.
WithoutDocs(docs, gone) == [i \in DOMAIN docs \ gone |-> docs[i]]

NoDocs == WithoutDocs(<<>>, {})

\* load_chunks(uid, chat_id, limit): the three lists in query order.
LoadChunks(docs, limit) ==
    LET ids == Prefix(OrderedIds(DOMAIN docs), limit)
    IN  [chunks |-> [j \in 1..Len(ids) |-> docs[ids[j]].text],
         embeddings |-> [j \in 1..Len(ids) |-> docs[ids[j]].embedding],
         metadata |-> [j \in 1..Len(ids) |-> docs[ids[j]].metadata]]

\* The collection a call of replace_chunks leaves when it runs alone.
ReplacedDocs(chunks, embeddings, metadatas, now) ==
    WithDocs(NoDocs, chunks, embeddings, metadatas, 0,
             ZipLen(chunks, embeddings, metadatas), now)

\* The lists a caller hands over: n chunks, as many embeddings or one less,
\* as many metadata maps or none.
StoreChunks(n) == [i \in 1..n |-> PoolText(i)]
StoreEmbeddings(n) == [i \in 1..n |-> <<i>>]
StoreMetas(n) == [i \in 1..n |-> PoolMeta(i)]

IdleFrame ==
    [pc |-> "idle", chunks |-> <<>>, embeddings |-> <<>>, metadatas |-> <<>>,
     batch_size |-> DefaultBatchSize, existing |-> <<>>, previous |-> NoDocs,
     pos |-> 0, now |-> 0]

NotLoaded == [chunks |-> <<>>, embeddings |-> <<>>, metadata |-> <<>>, at |-> "never", now |-> 0]

InitStore ==
    /\ fs_docs = NoDocs
    /\ chunk_count = 0
    /\ rp = IdleFrame
    /\ store_loaded = NotLoaded
    /\ clock = 0

\* Where replace_chunks goes when the delete loop is over: the write loop,
\* or the count update when zip yields nothing.
AfterDelete(f) ==
    IF ZipLen(f.chunks, f.embeddings, f.metadatas) > 0 THEN "writing" ELSE "counting"

\* replace_chunks is called: existing = list(chunks_ref.stream()), the
\* documents of the chat at the time of the call.
ReplaceBegin ==
    /\ rp.pc \in {"idle", "failed"}
    /\ clock < MaxReplaces
    /\ \E n \in 0..MaxStoreChunks, ne \in {0, 1}, has_meta \in BOOLEAN,
          batch_size \in {SmallBatch, DefaultBatchSize} :
          /\ ne <= n
          /\ LET f == [pc |-> "deleting",
                       chunks |-> StoreChunks(n),
                       embeddings |-> StoreEmbeddings(n - ne),
                       metadatas |-> IF has_meta THEN StoreMetas(n) ELSE <<>>,
                       batch_size |-> batch_size,
                       existing |-> OrderedIds(DOMAIN fs_docs),
                       previous |-> fs_docs,
                       pos |-> 0, now |-> clock + 1]
             IN  rp' = IF fs_docs = NoDocs THEN [f EXCEPT !.pc = AfterDelete(f)] ELSE f
    /\ clock' = clock + 1
    /\ UNCHANGED <<fs_docs, chunk_count, store_loaded>>

\* One batch.commit() of the delete loop.
DeleteCommit ==
    /\ rp.pc = "deleting"
    /\ LET to == Min(rp.pos + rp.batch_size, Len(rp.existing))
           gone == {rp.existing[j] : j \in (rp.pos + 1)..to}
       IN  /\ fs_docs' = WithoutDocs(fs_docs, gone)
           /\ rp' = IF to = Len(rp.existing)
                     THEN [rp EXCEPT !.pc = AfterDelete(rp), !.pos = 0]
                     ELSE [rp EXCEPT !.pos = to]
    /\ UNCHANGED <<chunk_count, store_loaded, clock>>

\* One batch.commit() of the write loop.
WriteCommit ==
    /\ rp.pc = "writing"
    /\ LET total == ZipLen(rp.chunks, rp.embeddings, rp.metadatas)
           to == Min(rp.pos + rp.batch_size, total)
       IN  /\ fs_docs' = WithDocs(fs_docs, rp.chunks, rp.embeddings, rp.metadatas,
                                  rp.pos, to, rp.now)
           /\ rp' = IF to = total THEN [rp EXCEPT !.pc = "counting"]
                     ELSE [rp EXCEPT !.pos = to]
    /\ UNCHANGED <<chunk_count, store_loaded, clock>>

\* batch.commit() raises in the delete loop or in the write loop: the
\* exception leaves replace_chunks, the batch is not applied.
CommitFails ==
    /\ rp.pc \in {"deleting", "writing"}
    /\ rp' = [rp EXCEPT !.pc = "failed"]
    /\ UNCHANGED <<fs_docs, chunk_count, store_loaded, clock>>

\* self.update_chat(uid, chat_id, chunk_count=len(chunks)); replace_chunks returns.
UpdateCount ==
    /\ rp.pc = "counting"
    /\ chunk_count' = Len(rp.chunks)
    /\ rp' = [rp EXCEPT !.pc = "idle"]
    /\ UNCHANGED <<fs_docs, store_loaded, clock>>

\* load_chunks is called, by this or by another session.
StoreLoad ==
    /\ store_loaded' = LoadChunks(fs_docs, LoadLimit) @@ [at |-> rp.pc, now |-> rp.now]
    /\ UNCHANGED <<fs_docs, chunk_count, rp, clock>>

----------------------------------------------------------------------------
\* safe_execute (src/utils/error_handling.py).

\* An exception: its class and its error_code ("none" for a class without).
Exc(class, error_code) == [class |-> class, error_code |-> error_code]

\* Subclasses of LabLensError: the four that ErrorHandler makes, each with
\* its error_code, and one made without an error_code.
LabLensSubclasses ==
    {Exc("DataValidationError", "VALIDATION_FAILED"),
     Exc("DataProcessingError", "DATA_PROCESSING_FAILED"),
     Exc("ExternalServiceError", "EXTERNAL_SERVICE_FAILED"),
     Exc("FileOperationError", "FILE_OPERATION_FAILED"),
     Exc("ModelTrainingError", "none")}

\* The exceptions a decorated function raises: the classes the except
\* clauses of the wrapper name, any other Exception, and the errors of
\* Lab Lens.
RaisedInside ==
    {Exc(c, "none") : c \in {"FileNotFoundError", "EmptyDataError", "ParserError",
                              "ValueError", "TypeError", "RuntimeError"}}
    \cup LabLensSubclasses

\* What the wrapper of safe_execute (reraise=True) raises when the function
\* raised e: the except clauses in their order.  No error of Lab Lens is a
\* FileNotFoundError, a pandas error, a ValueError or a TypeError, so it is
\* caught by "except Exception".
SafeExecuteRaises(e) ==
    IF e.class = "FileNotFoundError"
    THEN Exc("FileOperationError", "FILE_OPERATION_FAILED")
    ELSE IF e.class \in {"EmptyDataError", "ParserError", "ValueError", "TypeError"}
    THEN Exc("DataProcessingError", "DATA_PROCESSING_FAILED")
    ELSE Exc("LabLensError", "UNEXPECTED_ERROR")

\* The decorated functions an exception passes on its way to the caller,
\* innermost first: register_model calls register_model_mlflow and
\* push_to_gcp, the others are called from undecorated code.
DecoratedChains ==
    {<<"register_model_mlflow", "register_model">>, <<"push_to_gcp", "register_model">>,
     <<"register_model">>, <<"ask_question">>, <<"process_file">>, <<"add_documents">>}

InitExc ==
    /\ exc_chain = <<>>
    /\ exc_trail = <<>>

\* The innermost function of a chain raises.
ExcRaise ==
    /\ exc_trail = <<>>
    /\ \E chain \in DecoratedChains, e \in RaisedInside :
          /\ exc_chain' = chain
          /\ exc_trail' = <<e>>

\* The exception reaches the wrapper of the next function of the chain.
ExcWrap ==
    /\ exc_trail # <<>>
    /\ Len(exc_trail) <= Len(exc_chain)
    /\ exc_trail' = Append(exc_trail, SafeExecuteRaises(exc_trail[Len(exc_trail)]))
    /\ UNCHANGED exc_chain

\* The caller of the outermost function has the exception.
ExcReceived == exc_trail # <<>> /\ Len(exc_trail) = Len(exc_chain) + 1

\* The caller handles it; the next call can be made.
ExcHandle ==
    /\ ExcReceived
    /\ exc_trail' = <<>>
    /\ UNCHANGED exc_chain

----------------------------------------------------------------------------
\* VectorDatabase (src/rag/vector_db.py).

\* Cosine distances of a query embedding to the documents, in hundredths:
\* scores below, at and above the thresholds asked for.
VdbDistances == {UnitScore - sc : sc \in {-5, 20, 35}}

NResults == {1, MaxVdbDocs}

MinScores == {0, 20, 30}

\* The id add_documents generates for position i (counted from 0) of a call:
\* document name, position, digest of the text.
GeneratedId(text, metadata, i) ==
    <<IF metadata.document_name = NoName THEN "doc" ELSE metadata.document_name,
      i, text.body>>

VdbTexts(n) == [i \in 1..n |-> PoolText(i)]
VdbMetas(n) == [i \in 1..n |-> PoolMeta(i)]

\* self.collection.query(query_embeddings, n_results, where): for each query
\* embedding the n_results nearest documents that match where, nearest
\* first, as four lists of lists.  dists[q][i] is the distance of query q to
\* document i of the collection.
CollectionQuery(coll, dists, n_results, where) ==
    LET cand == {i \in 1..Len(coll) : where = NoHadm \/ coll[i].metadata.hadm_id = where}
        near(q) == Prefix(RankFrom(cand, [i \in 1..Len(coll) |-> 0 - dists[q][i]]), n_results)
        col(q, f(_)) == [j \in 1..Len(near(q)) |-> f(near(q)[j])]
    IN  [ids |-> [q \in 1..Len(dists) |-> col(q, LAMBDA i : coll[i].id)],
         documents |-> [q \in 1..Len(dists) |-> col(q, LAMBDA i : coll[i].document)],
         metadatas |-> [q \in 1..Len(dists) |-> col(q, LAMBDA i : coll[i].metadata)],
         distances |-> [q \in 1..Len(dists) |-> col(q, LAMBDA i : dists[q][i])]]

\* Mutant of ScorePasses: the results that score more than min_score are kept.
ScorePassesStrict(distance, min_score) == UnitScore - distance > min_score

\* score = 1.0 - distance; score >= min_score.
ScorePasses(distance, min_score) == UnitScore - distance >= min_score

\* The positions of distance_list whose entries are appended to the
\* filtered lists, in the order of the loop.
KeptPositions(distance_list, min_score) ==
    SelectSeq([j \in 1..Len(distance_list) |-> j],
              LAMBDA j : ScorePasses(distance_list[j], min_score))

\* The filtering loop of query over the results of the collection.
FilterResults(results, min_score) ==
    IF results.distances # <<>>
    THEN LET kept(q) == KeptPositions(results.distances[q], min_score)
             pick(list, q) == [t \in 1..Len(kept(q)) |-> list[q][kept(q)[t]]]
             Q == 1..Len(results.distances)
         IN  [ids |-> [q \in Q |-> pick(results.ids, q)],
              documents |-> [q \in Q |-> pick(results.documents, q)],
              metadatas |-> [q \in Q |-> pick(results.metadatas, q)],
              distances |-> [q \in Q |-> pick(results.distances, q)]]
    ELSE results

NoVdbCall == [op |-> "none"]

InitVdb ==
    /\ collection = <<>>
    /\ vdb_out = NoVdbCall

\* Mutant of ArgumentsRejected: the lengths are not compared.
ArgumentsRejectedWhenEmpty(n, ne, nm) == n = 0 \/ ne = 0

\* The two checks of add_documents on the lengths of texts, embeddings and
\* metadatas.
ArgumentsRejected(n, ne, nm) == n = 0 \/ ne = 0 \/ n # ne \/ n # nm

\* add_documents(texts, embeddings, metadatas) with ids = None: for an empty
\* or an unequal list the function raises ValueError and the wrapper of
\* safe_execute raises what it makes of it; otherwise the documents are
\* added under generated ids.  Documents are added to an empty collection
\* only (a bound of the model); a call that is rejected is made on any
\* collection.
VdbAddDocuments ==
    /\ vdb_out = NoVdbCall
    /\ \E n \in 0..MaxVdbDocs, ne \in 0..MaxVdbDocs, nm \in 0..MaxVdbDocs :
          LET call == [op |-> "add_documents", texts |-> n, embeddings |-> ne,
                       metadatas |-> nm, before |-> collection]
              m == Min(n, Min(ne, nm))
          IN  IF ArgumentsRejected(n, ne, nm)
              THEN /\ vdb_out' = call @@ [raised |-> TRUE, ids |-> <<>>,
                                          exception |-> SafeExecuteRaises(Exc("ValueError", "none"))]
                   /\ UNCHANGED collection
              ELSE LET ids == [i \in 1..m |-> GeneratedId(VdbTexts(m)[i], VdbMetas(m)[i], i - 1)]
                   IN  /\ collection = <<>>
                       /\ collection' = [i \in 1..m |->
                                            [id |-> ids[i], document |-> VdbTexts(m)[i],
                                             metadata |-> VdbMetas(m)[i]]]
                       /\ vdb_out' = call @@ [raised |-> FALSE, ids |-> ids,
                                              exception |-> Exc("none", "none")]

\* reset_collection(): the collection is deleted and created again.
VdbResetCollection ==
    /\ vdb_out = NoVdbCall
    /\ collection # <<>>
    /\ collection' = <<>>
    /\ vdb_out' = [op |-> "reset_collection"]

\* query(query_embeddings, n_results, where, min_score).
VdbQuery ==
    /\ vdb_out = NoVdbCall
    /\ \E nq \in 1..MaxQueries, n_results \in NResults,
          where \in {NoHadm} \cup Hadms, min_score \in MinScores :
          \E dists \in [1..nq -> [1..Len(collection) -> VdbDistances]] :
              LET results == CollectionQuery(collection, dists, n_results, where)
              IN  vdb_out' = [op |-> "query", n_results |-> n_results,
                              min_score |-> min_score, where |-> where,
                              results |-> results,
                              returned |-> FilterResults(results, min_score)]
    /\ UNCHANGED collection

\* The caller has taken what the call gave.
VdbReturn ==
    /\ vdb_out # NoVdbCall
    /\ vdb_out' = NoVdbCall
    /\ UNCHANGED collection

----------------------------------------------------------------------------
\* get_or_init_summarizer (model_deployment/api/app.py).

Threads == 1..MaxThreads


\* summarizer = None
NoSummarizer == 0

InitApi ==
    /\ summarizer = NoSummarizer
    /\ summarizer_init_lock = NoThread
    /\ tpc = [t \in Threads |-> "idle"]
    /\ got = [t \in Threads |-> NoSummarizer]
    /\ constructed = 0
    /\ failures = 0

\* Mutant of FoundUnderLock: the handle is not looked at again once the
\* lock is held.
NotCheckedUnderLock == FALSE

\* "if summarizer is not None" inside "with summarizer_init_lock".
FoundUnderLock == summarizer # NoSummarizer

\* A request thread calls get_or_init_summarizer.
ApiCall(t) ==
    /\ tpc[t] \in {"idle", "returned", "raised"}
    /\ tpc' = [tpc EXCEPT ![t] = "check"]
    /\ got' = [got EXCEPT ![t] = NoSummarizer]
    /\ UNCHANGED <<summarizer, summarizer_init_lock, constructed, failures>>

\* "if summarizer is not None: return summarizer" before the lock.
ApiFirstCheck(t) ==
    /\ tpc[t] = "check"
    /\ IF summarizer # NoSummarizer
       THEN /\ got' = [got EXCEPT ![t] = summarizer]
            /\ tpc' = [tpc EXCEPT ![t] = "returned"]
       ELSE /\ tpc' = [tpc EXCEPT ![t] = "acquire"]
            /\ UNCHANGED got
    /\ UNCHANGED <<summarizer, summarizer_init_lock, constructed, failures>>

\* "with summarizer_init_lock": the thread gets the lock when it is free.
ApiAcquire(t) ==
    /\ tpc[t] = "acquire"
    /\ summarizer_init_lock = NoThread
    /\ summarizer_init_lock' = t
    /\ tpc' = [tpc EXCEPT ![t] = "locked"]
    /\ UNCHANGED <<summarizer, got, constructed, failures>>

\* The check under the lock: return the handle and release the lock, or
\* go on to construct.
ApiSecondCheck(t) ==
    /\ tpc[t] = "locked"
    /\ IF FoundUnderLock
       THEN /\ got' = [got EXCEPT ![t] = summarizer]
            /\ tpc' = [tpc EXCEPT ![t] = "returned"]
            /\ summarizer_init_lock' = NoThread
       ELSE /\ tpc' = [tpc EXCEPT ![t] = "construct"]
            /\ UNCHANGED <<got, summarizer_init_lock>>
    /\ UNCHANGED <<summarizer, constructed, failures>>

\* summarizer = MedicalSummarizer(use_gpu=False); return summarizer.  The
\* instances are numbered in the order of their construction.
ApiConstruct(t) ==
    /\ tpc[t] = "construct"
    /\ summarizer' = constructed + 1
    /\ constructed' = constructed + 1
    /\ got' = [got EXCEPT ![t] = constructed + 1]
    /\ summarizer_init_lock' = NoThread
    /\ tpc' = [tpc EXCEPT ![t] = "returned"]
    /\ UNCHANGED failures

\* The import or the constructor raises: the assignment does not happen,
\* the with statement releases the lock, the exception leaves the call.
ApiConstructRaises(t) ==
    /\ tpc[t] = "construct"
    /\ failures < MaxFailures
    /\ failures' = failures + 1
    /\ summarizer_init_lock' = NoThread
    /\ tpc' = [tpc EXCEPT ![t] = "raised"]
    /\ UNCHANGED <<summarizer, got, constructed>>

----------------------------------------------------------------------------
\* The document flow of main() (src/scripts/file_qa_web.py).

ChatIds == 1..MaxChats

NoPayload == [chunks |-> <<>>, embeddings |-> <<>>, metadata |-> <<>>, via |-> "none"]

\* rag.export_cached_index() and rag.load_cached_index(chunks, embeddings, metas).
ExportCachedIndex(r) ==
    [chunks |-> r.chunks, embeddings |-> r.embeddings, metadata |-> r.metadata]

LoadCachedIndex(chunks, embeddings, metas) ==
    [chunks |-> chunks, embeddings |-> embeddings, metadata |-> metas]

EmptyIndex == LoadCachedIndex(<<>>, <<>>, <<>>)

\* sanitize_filename: the base of the name is replaced by a hash.
sanitize_filename(name) ==
    IF name = "a.pdf" THEN "file_86f7e437fa.pdf"
    ELSE IF name = "b.pdf" THEN "file_e9d71f5ee7.pdf"
    ELSE "file"

\* safe_metas: document_name is sanitized where the key has a value.
SafeMeta(m) ==
    IF m.document_name # NoName
    THEN [m EXCEPT !.document_name = sanitize_filename(@)]
    ELSE m

\* Mutant of PersistedChunks: the chunks are stored as they were exported.
PersistedChunksRaw(payload) == payload.chunks

\* The chunk texts that are persisted: redacted in privacy mode.
PersistedChunks(payload) ==
    IF privacy_mode
    THEN [i \in 1..Len(payload.chunks) |-> redact_text(payload.chunks[i])]
    ELSE payload.chunks

\* The metadata that is persisted: sanitized in privacy mode after a file
\* upload, as exported after a text input.
PersistedMetas(payload, via) ==
    IF privacy_mode /\ via = "files"
    THEN [i \in 1..Len(payload.metadata) |-> SafeMeta(payload.metadata[i])]
    ELSE payload.metadata

\* No question was asked since the last click.
NoAsk == [current_chat_id |-> NoChat, qa_chat_id |-> NoChat, index |-> EmptyIndex]

InitWeb ==
    /\ \E signed_in \in BOOLEAN :
          session = [signed_in |-> signed_in, chats |-> {1}, current_chat_id |-> 1,
                     qa_chat_id |-> 1, documents_loaded |-> FALSE, restored |-> FALSE]
    /\ web_rag = EmptyIndex
    /\ web_asked = NoAsk
    /\ chat_chunks = [c \in ChatIds |-> NoDocs]
    /\ local_docs_by_chat = [c \in ChatIds |-> NoPayload]
    /\ exported = [c \in ChatIds |-> NoPayload]

\* The "Load Documents" button: the QA system loads the upload (files, or
\* pasted text), the index is exported and persisted for the current chat -
\* in Firestore when signed in, in the session otherwise.
WebLoad(n, via) ==
    LET c == session.current_chat_id
        loaded == LoadCachedIndex(StoreChunks(n), StoreEmbeddings(n), StoreMetas(n))
        payload == ExportCachedIndex(loaded)
        chunks == PersistedChunks(payload)
        metas == PersistedMetas(payload, via)
    IN  /\ web_rag' = loaded
        /\ web_asked' = NoAsk
        /\ session' = [session EXCEPT !.documents_loaded = TRUE, !.restored = FALSE]
        /\ exported' = [exported EXCEPT ![c] = payload @@ [via |-> via]]
        /\ IF session.signed_in
           THEN /\ chat_chunks' = [chat_chunks EXCEPT
                                    ![c] = ReplacedDocs(chunks, payload.embeddings, metas, 1)]
                /\ UNCHANGED local_docs_by_chat
           ELSE /\ local_docs_by_chat' = [local_docs_by_chat EXCEPT
                     ![c] = [chunks |-> chunks, embeddings |-> payload.embeddings,
                             metadata |-> metas, via |-> via]]
                /\ UNCHANGED chat_chunks

\* The index a new QA system gets for chat c when main() runs with
\* qa_chat_id different from the current chat.
RestoredIndex(c) ==
    IF session.signed_in
    THEN LET l == LoadChunks(chat_chunks[c], LoadLimit)
         IN  IF l.chunks # <<>> /\ l.embeddings # <<>> /\ Len(l.embeddings[1]) > 0
             THEN LoadCachedIndex(l.chunks, l.embeddings, l.metadata)
             ELSE EmptyIndex
    ELSE LET payload == local_docs_by_chat[c]
         IN  IF payload.chunks # <<>> /\ payload.embeddings # <<>>
             THEN LoadCachedIndex(payload.chunks, payload.embeddings, payload.metadata)
             ELSE EmptyIndex

\* Mutant of NeedsNewQASystem: main() keeps the QA system it has.
KeepsQASystem(qa_chat_id, current_chat_id) == FALSE

\* "st.session_state.qa_chat_id != current_chat_id" at the top of main().
NeedsNewQASystem(qa_chat_id, current_chat_id) == qa_chat_id # current_chat_id

\* A chat button of the sidebar: current_chat_id is the chat of the button
\* and qa_chat_id is None, main() runs again, and as qa_chat_id differs
\* from the current chat it makes a new QA system, sets qa_chat_id and
\* restores the persisted index of the chat.
WebSwitchChat(c) ==
    LET renew == NeedsNewQASystem(NoChat, c)
    IN  /\ web_rag' = IF renew THEN RestoredIndex(c) ELSE web_rag
        /\ web_asked' = NoAsk
        /\ session' =
              IF renew
              THEN [session EXCEPT !.current_chat_id = c, !.qa_chat_id = c,
                                   !.documents_loaded = (RestoredIndex(c) # EmptyIndex),
                                   !.restored = (RestoredIndex(c) # EmptyIndex)]
              ELSE [session EXCEPT !.current_chat_id = c, !.qa_chat_id = NoChat]
        /\ UNCHANGED <<chat_chunks, local_docs_by_chat, exported>>

\* create_new_chat: a new chat with a new QA system and no documents.
WebNewChat(c) ==
    /\ web_rag' = EmptyIndex
    /\ web_asked' = NoAsk
    /\ session' = [session EXCEPT !.chats = @ \cup {c}, !.current_chat_id = c,
                                  !.qa_chat_id = c, !.documents_loaded = FALSE,
                                  !.restored = FALSE]
    /\ local_docs_by_chat' = IF session.signed_in THEN local_docs_by_chat
                             ELSE [local_docs_by_chat EXCEPT ![c] = NoPayload]
    /\ UNCHANGED <<chat_chunks, exported>>

\* A question in the chat input: without loaded documents the script stops
\* with a warning, otherwise the question is handed to
\* st.session_state.qa_system.ask_question.
WebAsk ==
    /\ session.documents_loaded
    /\ web_asked' = [current_chat_id |-> session.current_chat_id,
                     qa_chat_id |-> session.qa_chat_id, index |-> web_rag]
    /\ UNCHANGED <<session, web_rag, chat_chunks, local_docs_by_chat, exported>>

----------------------------------------------------------------------------
\* The QA system: construction, loading, asking.

Backends == {"faiss", "numpy", "none"}

InitFileQA ==
    /\ system = "FileQA"
    /\ gemini \in BOOLEAN
    /\ allow_external_calls \in BOOLEAN
    /\ privacy_mode \in BOOLEAN
    /\ rag_k \in RagKs
    /\ self_hadm_id = NoHadm
    /\ GEMINI_AVAILABLE \in BOOLEAN
    /\ FAISS_AVAILABLE \in BOOLEAN
    /\ \E model \in BOOLEAN : rag = EmptyRag(model)

\* PatientQA builds its RAGSystem from the data file when it is constructed.
InitPatientQA ==
    /\ system = "PatientQA"
    /\ gemini \in BOOLEAN
    /\ allow_external_calls = TRUE
    /\ privacy_mode = FALSE
    /\ rag_k \in RagKs
    /\ self_hadm_id \in {NoHadm} \cup Hadms
    /\ GEMINI_AVAILABLE = TRUE
    /\ FAISS_AVAILABLE = TRUE
    /\ \E n \in 0..MaxChunks, backend \in {"faiss", "numpy"} :
          rag = LoadedRag(TRUE, n, backend, self_hadm_id)

NotAsked ==
    /\ pc = "idle"
    /\ asked_hadm_id = NoHadm
    /\ load_result = NoLoadResult
    /\ result = NoResult
    /\ retrieve_calls = <<>>
    /\ document_context = <<>>
    /\ llm_calls = <<>>

Init ==
    /\ InitFileQA \/ InitPatientQA
    /\ NotAsked
    /\ InitStore
    /\ InitWeb
    /\ ~session.signed_in
    /\ InitVdb
    /\ InitApi
    /\ InitDoc
    /\ InitMon
    /\ InitExc

config == <<system, gemini, allow_external_calls, privacy_mode, rag_k, self_hadm_id,
            GEMINI_AVAILABLE, FAISS_AVAILABLE>>

\* FileQA.load_text of a system without a vector database: the RAGSystem
\* holds the chunks of the text; the index is built by FAISS, by numpy, or
\* not at all; the returned dictionary says whether chunks and index are
\* there.
Load ==
    /\ system = "FileQA"
    /\ pc = "idle"
    /\ \E text \in LoadTexts, backend \in Backends :
          LET loaded == LoadedRag(rag.embedding_model, text.chunks, backend, NoHadm)
          IN  /\ rag' = loaded
              /\ load_result' = LoadTextResult(text, rag.chunks # <<>>, loaded)
    /\ pc' = "loaded"
    /\ UNCHANGED <<config, result, retrieve_calls, document_context, llm_calls,
                   asked_hadm_id>>
    /\ UNCHANGED <<storeVars, webVars, vdbVars, apiVars, docVars, monVars, excVars>>

Returns(d) ==
    /\ pc' = "returned"
    /\ UNCHANGED load_result
    /\ result' = d.result
    /\ retrieve_calls' = d.retrieve_calls
    /\ document_context' = d.document_context
    /\ llm_calls' = d.llm_calls
    /\ UNCHANGED <<config, rag, storeVars, webVars, vdbVars, apiVars, docVars, monVars, excVars>>

Sims == [1..Len(rag.chunks) -> Scores]

\* ask_question returns before it retrieves.
AskEarly ==
    /\ system = "FileQA"
    /\ pc = "idle"
    /\ ~gemini \/ rag.chunks = <<>>
         \/ (allow_external_calls /\ ~(rag.embedding_model /\ HasIndex))
    /\ \E question \in QuestionTexts :
          Returns(AskQuestion(question, <<>>, TRUE, <<>>))
    /\ asked_hadm_id' = NoHadm

\* ask_question in local-only mode.
AskLocal ==
    /\ system = "FileQA"
    /\ pc = "idle"
    /\ gemini /\ rag.chunks # <<>> /\ ~allow_external_calls
    /\ \E question \in QuestionTexts, sim \in Sims :
          Returns(AskQuestion(question, sim, TRUE, <<>>))
    /\ asked_hadm_id' = NoHadm

\* ask_question with external calls on a system that is ready.
AskExternal ==
    /\ system = "FileQA"
    /\ pc = "idle"
    /\ gemini /\ rag.chunks # <<>> /\ allow_external_calls
    /\ rag.embedding_model /\ HasIndex
    /\ \E question \in QuestionTexts, sim \in Sims, gen_ok \in BOOLEAN :
          \E sample \in (IF Ladder(rag, sim, rag_k, 1, <<>>).retrieved = <<>>
                         THEN Samples(Len(rag.chunks), Min(SampleMax, Len(rag.chunks)))
                         ELSE {<<>>}) :
             Returns(AskQuestion(question, sim, gen_ok, sample))
    /\ asked_hadm_id' = NoHadm

PatientAsk ==
    /\ system = "PatientQA"
    /\ pc = "idle"
    /\ \E question \in QuestionTexts, sim \in Sims, hadm \in {NoHadm} \cup Hadms,
          include_full_context \in BOOLEAN, gen_ok \in BOOLEAN :
             /\ Returns(PatientAskQuestion(question, sim, hadm, include_full_context, gen_ok))
             /\ asked_hadm_id' = hadm

\* summarize_document is called.
Summarize ==
    /\ system = "FileQA"
    /\ pc = "idle"
    /\ \E text \in SummaryArgs, gem_ok \in BOOLEAN, api_base \in BOOLEAN,
          api_ok \in BOOLEAN, local \in LocalSummarizers :
          LET d == SummarizeDocument(text, gem_ok, api_base, api_ok, local)
          IN  /\ result' = d.result
              /\ retrieve_calls' = d.retrieve_calls
              /\ document_context' = d.document_context
              /\ llm_calls' = d.llm_calls
    /\ pc' = "summarized"
    /\ UNCHANGED <<config, rag, asked_hadm_id, load_result>>
    /\ UNCHANGED <<storeVars, webVars, vdbVars, apiVars, docVars, monVars, excVars>>

\* The caller takes the returned dictionary.
Return ==
    /\ pc \in {"returned", "loaded", "summarized"}
    /\ pc' = "idle"
    /\ load_result' = NoLoadResult
    /\ result' = NoResult
    /\ retrieve_calls' = <<>>
    /\ document_context' = <<>>
    /\ llm_calls' = <<>>
    /\ asked_hadm_id' = NoHadm
    /\ UNCHANGED <<config, rag, storeVars, webVars, vdbVars, apiVars, docVars, monVars, excVars>>

Next == Load \/ AskEarly \/ AskLocal \/ AskExternal \/ PatientAsk \/ Summarize \/ Return

Spec == Init /\ [][Next]_vars

----------------------------------------------------------------------------
\* One chat's chunk collection under replace_chunks and load_chunks.

\* The QA system stays as it was constructed.
QAConstructed ==
    /\ system = "FileQA"
    /\ gemini = TRUE
    /\ allow_external_calls = TRUE
    /\ privacy_mode \in BOOLEAN
    /\ rag_k = MaxK
    /\ self_hadm_id = NoHadm
    /\ GEMINI_AVAILABLE = TRUE
    /\ FAISS_AVAILABLE = TRUE
    /\ rag = EmptyRag(TRUE)
    /\ NotAsked

InitStoreSpec ==
    /\ QAConstructed
    /\ privacy_mode = TRUE
    /\ InitStore
    /\ InitWeb
    /\ session.signed_in
    /\ InitVdb
    /\ InitApi
    /\ InitDoc
    /\ InitMon
    /\ InitExc

StoreReplaceBegin == ReplaceBegin /\ UNCHANGED <<qaVars, webVars, vdbVars, apiVars, docVars, monVars, excVars>>
StoreDeleteCommit == DeleteCommit /\ UNCHANGED <<qaVars, webVars, vdbVars, apiVars, docVars, monVars, excVars>>
StoreWriteCommit == WriteCommit /\ UNCHANGED <<qaVars, webVars, vdbVars, apiVars, docVars, monVars, excVars>>
StoreUpdateCount == UpdateCount /\ UNCHANGED <<qaVars, webVars, vdbVars, apiVars, docVars, monVars, excVars>>
StoreCommitFails == CommitFails /\ UNCHANGED <<qaVars, webVars, vdbVars, apiVars, docVars, monVars, excVars>>
StoreLoadChunks == StoreLoad /\ UNCHANGED <<qaVars, webVars, vdbVars, apiVars, docVars, monVars, excVars>>

NextStore ==
    StoreReplaceBegin \/ StoreDeleteCommit \/ StoreWriteCommit \/ StoreUpdateCount
        \/ StoreCommitFails \/ StoreLoadChunks

SpecStore == InitStoreSpec /\ [][NextStore]_vars

----------------------------------------------------------------------------
\* The session of the web application.

InitWebSpec ==
    /\ QAConstructed
    /\ InitStore
    /\ InitWeb
    /\ InitVdb
    /\ InitApi
    /\ InitDoc
    /\ InitMon
    /\ InitExc

LoadDocuments ==
    /\ \E n \in 1..MaxStoreChunks, via \in {"files", "text"} : WebLoad(n, via)
    /\ UNCHANGED <<qaVars, storeVars, vdbVars, apiVars, docVars, monVars, excVars>>

SwitchChat ==
    /\ \E c \in session.chats : WebSwitchChat(c)
    /\ UNCHANGED <<qaVars, storeVars, vdbVars, apiVars, docVars, monVars, excVars>>

NewChat ==
    /\ \E c \in ChatIds \ session.chats : WebNewChat(c)
    /\ UNCHANGED <<qaVars, storeVars, vdbVars, apiVars, docVars, monVars, excVars>>

AskInChat ==
    /\ WebAsk
    /\ UNCHANGED <<qaVars, storeVars, vdbVars, apiVars, docVars, monVars, excVars>>

NextWeb == LoadDocuments \/ SwitchChat \/ NewChat \/ AskInChat

SpecWeb == InitWebSpec /\ [][NextWeb]_vars

----------------------------------------------------------------------------
\* A DocumentProcessor: its construction and the image files it processes.

InitDocSpec ==
    /\ QAConstructed
    /\ privacy_mode = TRUE
    /\ InitStore
    /\ InitWeb
    /\ ~session.signed_in
    /\ InitVdb
    /\ InitApi
    /\ GEMINI_VISION_AVAILABLE \in BOOLEAN
    /\ OCR_AVAILABLE \in BOOLEAN
    /\ NoDocumentProcessor
    /\ InitMon
    /\ InitExc

ConstructByFileQA ==
    DocConstructByFileQA /\ UNCHANGED <<qaVars, storeVars, webVars, vdbVars, apiVars, monVars, excVars>>
ConstructDirectly ==
    DocConstructDirectly /\ UNCHANGED <<qaVars, storeVars, webVars, vdbVars, apiVars, monVars, excVars>>
ProcessImage ==
    DocProcessImage /\ UNCHANGED <<qaVars, storeVars, webVars, vdbVars, apiVars, monVars, excVars>>

NextDoc == ConstructByFileQA \/ ConstructDirectly \/ ProcessImage

SpecDoc == InitDocSpec /\ [][NextDoc]_vars

----------------------------------------------------------------------------
\* Request threads of the API that call InferenceMonitor.record and status.

InitMonSpec ==
    /\ QAConstructed
    /\ privacy_mode = TRUE
    /\ InitStore
    /\ InitWeb
    /\ ~session.signed_in
    /\ InitVdb
    /\ InitApi
    /\ InitDoc
    /\ mon_enabled \in BOOLEAN
    /\ NewMonitor
    /\ InitExc

RecordCall ==
    \E t \in MonThreads :
        MonRecordCall(t) /\ UNCHANGED <<qaVars, storeVars, webVars, vdbVars, apiVars, docVars, excVars>>
StatusCall ==
    \E t \in MonThreads :
        MonStatusCall(t) /\ UNCHANGED <<qaVars, storeVars, webVars, vdbVars, apiVars, docVars, excVars>>
LockAcquire ==
    \E t \in MonThreads :
        MonAcquire(t) /\ UNCHANGED <<qaVars, storeVars, webVars, vdbVars, apiVars, docVars, excVars>>
RecordStep ==
    \E t \in MonThreads :
        MonRecordStep(t) /\ UNCHANGED <<qaVars, storeVars, webVars, vdbVars, apiVars, docVars, excVars>>
RecordReturn ==
    \E t \in MonThreads :
        MonRecordReturn(t) /\ UNCHANGED <<qaVars, storeVars, webVars, vdbVars, apiVars, docVars, excVars>>
StatusReturn ==
    \E t \in MonThreads :
        MonStatusReturn(t) /\ UNCHANGED <<qaVars, storeVars, webVars, vdbVars, apiVars, docVars, excVars>>

NextMon ==
    RecordCall \/ StatusCall \/ LockAcquire \/ RecordStep \/ RecordReturn \/ StatusReturn

SpecMon == InitMonSpec /\ [][NextMon]_vars

----------------------------------------------------------------------------
\* Exceptions raised in decorated functions.

InitExcSpec ==
    /\ QAConstructed
    /\ privacy_mode = TRUE
    /\ InitStore
    /\ InitWeb
    /\ ~session.signed_in
    /\ InitVdb
    /\ InitApi
    /\ InitDoc
    /\ InitMon
    /\ InitExc

Raise == ExcRaise /\ UNCHANGED <<qaVars, storeVars, webVars, vdbVars, apiVars, docVars, monVars>>
Wrap == ExcWrap /\ UNCHANGED <<qaVars, storeVars, webVars, vdbVars, apiVars, docVars, monVars>>
Handle == ExcHandle /\ UNCHANGED <<qaVars, storeVars, webVars, vdbVars, apiVars, docVars, monVars>>

NextExc == Raise \/ Wrap \/ Handle

SpecExc == InitExcSpec /\ [][NextExc]_vars

----------------------------------------------------------------------------
\* A VectorDatabase under add_documents, reset_collection and query.

InitVdbSpec ==
    /\ QAConstructed
    /\ privacy_mode = TRUE
    /\ InitStore
    /\ InitWeb
    /\ ~session.signed_in
    /\ InitVdb
    /\ InitApi
    /\ InitDoc
    /\ InitMon
    /\ InitExc

AddDocuments == VdbAddDocuments /\ UNCHANGED <<qaVars, storeVars, webVars, apiVars, docVars, monVars, excVars>>
ResetCollection == VdbResetCollection /\ UNCHANGED <<qaVars, storeVars, webVars, apiVars, docVars, monVars, excVars>>
Query == VdbQuery /\ UNCHANGED <<qaVars, storeVars, webVars, apiVars, docVars, monVars, excVars>>

QueryReturn == VdbReturn /\ UNCHANGED <<qaVars, storeVars, webVars, apiVars, docVars, monVars, excVars>>

NextVdb == AddDocuments \/ ResetCollection \/ Query \/ QueryReturn

SpecVdb == InitVdbSpec /\ [][NextVdb]_vars

----------------------------------------------------------------------------
\* A QA system and a VectorDatabase side by side.  The two share no state:
\* the steps of the one are taken while the other is as it was constructed.

AskStep == (collection = <<>> /\ vdb_out = NoVdbCall) /\ Next

VdbStep == QAConstructed /\ NextVdb

NextRank == AskStep \/ VdbStep

SpecRank == Init /\ [][NextRank]_vars

----------------------------------------------------------------------------
\* Request threads of the API that call get_or_init_summarizer.

InitApiSpec == InitVdbSpec

Call == \E t \in Threads : ApiCall(t) /\ UNCHANGED <<qaVars, storeVars, webVars, vdbVars, docVars, monVars, excVars>>
FirstCheck ==
    \E t \in Threads : ApiFirstCheck(t) /\ UNCHANGED <<qaVars, storeVars, webVars, vdbVars, docVars, monVars, excVars>>
Acquire ==
    \E t \in Threads : ApiAcquire(t) /\ UNCHANGED <<qaVars, storeVars, webVars, vdbVars, docVars, monVars, excVars>>
SecondCheck ==
    \E t \in Threads : ApiSecondCheck(t) /\ UNCHANGED <<qaVars, storeVars, webVars, vdbVars, docVars, monVars, excVars>>
Construct ==
    \E t \in Threads : ApiConstruct(t) /\ UNCHANGED <<qaVars, storeVars, webVars, vdbVars, docVars, monVars, excVars>>
ConstructRaises ==
    \E t \in Threads :
        ApiConstructRaises(t) /\ UNCHANGED <<qaVars, storeVars, webVars, vdbVars, docVars, monVars, excVars>>

NextApi == Call \/ FirstCheck \/ Acquire \/ SecondCheck \/ Construct \/ ConstructRaises

SpecApi == InitApiSpec /\ [][NextApi]_vars

----------------------------------------------------------------------------
\* Properties of ask_question.

FileAsked == system = "FileQA" /\ pc = "returned"

\* ask_question got as far as generating an answer.
Generated == result.answer \in {"generated", "generation_error"}

LastCall == retrieve_calls[Len(retrieve_calls)]

Idxs(items) == [i \in 1..Len(items) |-> items[i].idx]

\* C1: with external calls allowed, FileQA.ask_question retrieves with the
\* thresholds 0.3, 0.2, 0.1, 0.0 in this order, each with k = rag_k, at
\* most four times; it stops at the first threshold that returns something,
\* that result is the one it uses, and what it uses is empty only when all
\* four thresholds returned nothing.
C1_ThresholdLadder ==
    (FileAsked /\ allow_external_calls) =>
        /\ Len(retrieve_calls) <= 4
        /\ \A i \in 1..Len(retrieve_calls) :
              /\ retrieve_calls[i].min_score = <<30, 20, 10, 0>>[i]
              /\ retrieve_calls[i].k = rag_k
              /\ i < Len(retrieve_calls) => retrieve_calls[i].returned = 0
        /\ Generated =>
              /\ Len(retrieve_calls) >= 1
              /\ Len(result.sources) = LastCall.returned
              /\ \A i \in 1..Len(result.sources) :
                    result.sources[i].score >= LastCall.min_score
              /\ LastCall.returned = 0 => Len(retrieve_calls) = 4

\* The ladder went down to 0.1 and found something there.
C1_Witness ==
    /\ FileAsked /\ allow_external_calls /\ Generated
    /\ Len(retrieve_calls) = 3
    /\ LastCall.returned > 0

\* C2: an entry point that retrieves with the initial threshold 0.3 does not
\* end without retrieved chunks when every candidate scores below 0.3 and a
\* lower threshold (0.2, 0.1 or 0.0) would return one.
C2_RelaxationEverywhere ==
    (/\ pc = "returned"
     /\ Len(retrieve_calls) >= 1
     /\ retrieve_calls[1].min_score = 30
     /\ retrieve_calls[1].ready
     /\ \E b \in retrieve_calls[1].best : b < 30 /\ b >= 0)
    => /\ result.answer # "not_found"
       /\ result.has_sources
       /\ result.sources # <<>>

\* C3: when a retrieved result scores above 0.2, the context holds exactly
\* the results that score above 0.2, in rank order, and a generated answer
\* is labelled "document".
C3_StrongTier ==
    (/\ FileAsked /\ allow_external_calls /\ Generated
     /\ \E i \in 1..Len(result.sources) : result.sources[i].score > 20)
    => /\ Idxs(document_context)
            = Idxs(SelectSeq(result.sources, LAMBDA c : c.score > 20))
       /\ \A i \in 1..Len(document_context) :
             document_context[i].text = rag.chunks[document_context[i].idx]
       /\ result.answer = "generated" => result.answer_source = "document"

\* The ladder stopped at 0.2 with a result at exactly 0.2 next to a better one.
C3_Witness ==
    /\ FileAsked /\ allow_external_calls /\ result.answer = "generated"
    /\ \E i, j \in 1..Len(result.sources) :
          result.sources[i].score > 20 /\ result.sources[j].score = 20

\* C4: when something was retrieved and nothing scores above 0.2, the
\* context is the first min(3, n) retrieved results in rank order, and a
\* generated answer is labelled "document_and_knowledge".
C4_WeakTier ==
    (/\ FileAsked /\ allow_external_calls /\ Generated
     /\ result.sources # <<>>
     /\ \A i \in 1..Len(result.sources) : result.sources[i].score <= 20)
    => /\ Len(document_context) = Min(3, Len(result.sources))
       /\ \A i \in 1..Len(document_context) :
             /\ document_context[i].idx = result.sources[i].idx
             /\ document_context[i].text = rag.chunks[result.sources[i].idx]
       /\ result.answer = "generated" => result.answer_source = "document_and_knowledge"

\* Four weak results were retrieved: the fourth stays out of the context.
C4_Witness ==
    /\ FileAsked /\ allow_external_calls /\ result.answer = "generated"
    /\ Len(result.sources) = 4
    /\ \A i \in 1..4 : result.sources[i].score <= 20

\* C5: when every threshold returned nothing and N >= 1 chunks are loaded,
\* the context is built from min(3, N) chunks at pairwise different
\* positions of the pool, each with the metadata of its own position.
C5_SampledTier ==
    (/\ FileAsked /\ allow_external_calls /\ Generated
     /\ Len(retrieve_calls) = 4
     /\ \A i \in 1..4 : retrieve_calls[i].returned = 0
     /\ Len(rag.chunks) >= 1)
    => /\ Len(document_context) = Min(3, Len(rag.chunks))
       /\ \A i \in 1..Len(document_context) :
             /\ document_context[i].idx \in 1..Len(rag.chunks)
             /\ document_context[i].text = rag.chunks[document_context[i].idx]
             /\ document_context[i].document_name
                   = MetaName(rag.metadata[document_context[i].idx])
       /\ \A i, j \in 1..Len(document_context) :
             i # j => document_context[i].idx # document_context[j].idx

\* Three of four chunks were sampled, not in pool order.
C5_Witness ==
    /\ FileAsked /\ allow_external_calls /\ Generated
    /\ result.sources = <<>>
    /\ Len(rag.chunks) = 4
    /\ Len(document_context) = 3
    /\ document_context[1].idx > document_context[2].idx

\* C6 as claimed: without chunks, ask_question (of a system that has its
\* Gemini model) produces an answer without document context that is
\* labelled general knowledge only.
C6_EmptyCorpusGeneralKnowledge ==
    (FileAsked /\ gemini /\ rag.chunks = <<>>) =>
        /\ document_context = <<>>
        /\ result.answer_source = "general_knowledge"

\* C6, amended: without chunks, ask_question assembles no context, makes no
\* generation call and returns an outcome with an 'error' field and without
\* answer_source: "No documents loaded" when the Gemini model is there.
C6_EmptyCorpusNoDocuments ==
    (FileAsked /\ rag.chunks = <<>>) =>
        /\ document_context = <<>>
        /\ llm_calls = <<>>
        /\ result.error
        /\ result.answer_source = "absent"
        /\ gemini => result.answer = "no_documents"

\* A question was asked without chunks, with external calls allowed.
C6_Witness ==
    /\ FileAsked /\ gemini /\ allow_external_calls
    /\ rag.chunks = <<>>
    /\ result.error /\ result.answer_source = "absent"

\* C7 as claimed: in both modes retrieve is called only when the embedding
\* model and an index are there; otherwise, with chunks loaded, nothing is
\* searched and the outcome carries an 'error' field.
C7_GuardInEveryMode ==
    FileAsked =>
        /\ \A i \in 1..Len(retrieve_calls) : retrieve_calls[i].ready
        /\ (rag.chunks # <<>> /\ ~RagReady(rag)) =>
              retrieve_calls = <<>> /\ result.error

\* C7, amended: with external calls allowed retrieve is called only when the
\* embedding model and an index are there; in both modes a system with
\* chunks that is not ready returns an outcome with an 'error' field, without
\* sources and answer_source, and no retrieval returns anything (local-only
\* mode calls retrieve unguarded and reports its failure).
C7_NotReadyIsAnError ==
    FileAsked =>
        /\ allow_external_calls =>
              \A i \in 1..Len(retrieve_calls) : retrieve_calls[i].ready
        /\ (rag.chunks # <<>> /\ ~RagReady(rag)) =>
              /\ result.error
              /\ ~result.has_sources
              /\ result.answer_source = "absent"
              /\ llm_calls = <<>>
              /\ \A i \in 1..Len(retrieve_calls) : retrieve_calls[i].returned = 0

\* Chunks are loaded, the index was not built, external calls are allowed.
C7_Witness ==
    /\ FileAsked /\ gemini /\ allow_external_calls
    /\ rag.chunks # <<>> /\ rag.embedding_model /\ ~RagReady(rag)
    /\ result.answer = "index_not_built"

\* C8 as claimed: on a fresh system a query performs no search and no
\* generation call and reports "nothing to search".
C8_FreshReportsNothingToSearch ==
    (FileAsked /\ rag = EmptyRag(rag.embedding_model)) =>
        /\ retrieve_calls = <<>>
        /\ llm_calls = <<>>
        /\ result.answer = "no_documents"

\* C8, amended: on a fresh system a query returns a dictionary, performs no
\* search and no generation call, and reports "No documents loaded" - or
\* "Gemini model not initialized" when the Gemini model is missing.
C8_FreshSystemQuery ==
    (FileAsked /\ rag = EmptyRag(rag.embedding_model)) =>
        /\ retrieve_calls = <<>>
        /\ llm_calls = <<>>
        /\ document_context = <<>>
        /\ result.answer = IF gemini THEN "no_documents" ELSE "unavailable"

\* A question was asked on a fresh system that has its Gemini model.
C8_Witness ==
    /\ FileAsked /\ gemini
    /\ rag = EmptyRag(rag.embedding_model)
    /\ result.answer = "no_documents"

----------------------------------------------------------------------------
\* Properties of the persisted index.

C10_StoreKeepsPositions ==
    (/\ clock > 0 /\ rp.pc = "idle"
     /\ store_loaded.at = "idle" /\ store_loaded.now = rp.now
     /\ Len(rp.embeddings) = Len(rp.chunks)
     /\ Len(rp.metadatas) = Len(rp.chunks)
     /\ Len(rp.chunks) <= LoadLimit)
    => /\ store_loaded.chunks = rp.chunks
       /\ store_loaded.embeddings = rp.embeddings
       /\ store_loaded.metadata = rp.metadatas

\* C11: what load_chunks returns while replace_chunks runs for the chat, or
\* after replace_chunks failed on a batch commit, is the complete chunk set
\* the chat had before the call or the complete new chunk set.
C11_ReplaceAllOrNothing ==
    (store_loaded.at # "never" /\ store_loaded.now = rp.now) =>
        LET seen == [chunks |-> store_loaded.chunks,
                     embeddings |-> store_loaded.embeddings,
                     metadata |-> store_loaded.metadata]
        IN  \/ seen = LoadChunks(rp.previous, LoadLimit)
            \/ seen = LoadChunks(ReplacedDocs(rp.chunks, rp.embeddings,
                                              rp.metadatas, rp.now), LoadLimit)

----------------------------------------------------------------------------
\* Properties of VectorDatabase.query.

Queried == vdb_out.op = "query"

\* C12: for every query embedding, query returns the results of the
\* collection whose score 1 - distance is at least min_score and no others,
\* in the order of the collection's results, at most n_results of them, and
\* its ids, documents, metadatas and distances lists have one length and
\* hold at one position the fields of one result.
C12_QueryThresholdFilter ==
    Queried =>
        LET res == vdb_out.results
            ret == vdb_out.returned
            Q == 1..Len(res.distances)
            Passing(q) == {j \in 1..Len(res.distances[q]) :
                              UnitScore - res.distances[q][j] >= vdb_out.min_score}
        IN  /\ Len(ret.ids) = Len(res.distances)
            /\ Len(ret.documents) = Len(res.distances)
            /\ Len(ret.metadatas) = Len(res.distances)
            /\ Len(ret.distances) = Len(res.distances)
            /\ \A q \in Q :
                  /\ Len(ret.ids[q]) = Cardinality(Passing(q))
                  /\ Len(ret.documents[q]) = Len(ret.ids[q])
                  /\ Len(ret.metadatas[q]) = Len(ret.ids[q])
                  /\ Len(ret.distances[q]) = Len(ret.ids[q])
                  /\ Len(ret.ids[q]) <= vdb_out.n_results
                  /\ \A t \in 1..Len(ret.ids[q]) :
                        \E j \in Passing(q) :
                            /\ Cardinality({i \in Passing(q) : i < j}) = t - 1
                            /\ ret.ids[q][t] = res.ids[q][j]
                            /\ ret.documents[q][t] = res.documents[q][j]
                            /\ ret.metadatas[q][t] = res.metadatas[q][j]
                            /\ ret.distances[q][t] = res.distances[q][j]

\* A query of two embeddings whose filter dropped a result of the first
\* and kept another.
C12_Witness ==
    /\ Queried
    /\ Len(vdb_out.results.distances) = MaxQueries
    /\ vdb_out.min_score > 0
    /\ Len(vdb_out.results.ids[1]) > Len(vdb_out.returned.ids[1])
    /\ Len(vdb_out.returned.ids[1]) > 0

----------------------------------------------------------------------------
\* Properties of the order of results.

NonIncreasing(scores) ==
    \A i, j \in 1..Len(scores) : i < j => scores[i] >= scores[j]

\* The score retrieve gave the chunk of a context part.
SourceScore(part) ==
    (CHOOSE src \in {result.sources[i] : i \in 1..Len(result.sources)} :
        src.idx = part.idx).score

\* C13: the sources a question returns are ordered by non-increasing
\* score, so are the chunks of the context built from the strong matches
\* or from the first three weak matches, and so are the filtered results
\* of VectorDatabase.query for every query embedding.
C13_RankingMonotone ==
    /\ (pc = "returned" /\ result.has_sources /\ ~result.error) =>
          /\ NonIncreasing([i \in 1..Len(result.sources) |-> result.sources[i].score])
          /\ result.sources # <<>> =>
                NonIncreasing([i \in 1..Len(document_context) |->
                                  SourceScore(document_context[i])])
    /\ Queried =>
          \A q \in 1..Len(vdb_out.returned.distances) :
              NonIncreasing([t \in 1..Len(vdb_out.returned.distances[q]) |->
                                UnitScore - vdb_out.returned.distances[q][t]])

\* A question in privacy mode returned three sources, the last of a lower
\* score than the others, of which two were strong matches and made the
\* context.
C13_Witness ==
    /\ FileAsked /\ privacy_mode /\ result.answer = "generated"
    /\ Len(result.sources) = 3
    /\ result.sources[2].score > result.sources[3].score
    /\ Len(document_context) = 2

----------------------------------------------------------------------------
\* Properties of PatientQA.ask_question.

\* C14: when PatientQA.ask_question is called with hadm_id = X, in
\* multi-patient mode and in single-patient mode, every source it returns
\* has metadata hadm_id X.
C14_SourcesOfAskedPatient ==
    (/\ system = "PatientQA" /\ pc = "returned"
     /\ asked_hadm_id # NoHadm /\ result.has_sources)
    => \A i \in 1..Len(result.sources) :
          result.sources[i].metadata.hadm_id = asked_hadm_id

----------------------------------------------------------------------------
\* Properties of the assembled context.

\* The context was built from retrieved chunks (strong or weak tier).
FromRetrieved == retrieve_calls # <<>> /\ LastCall.returned > 0

TagNamesDocument(part) ==
    /\ part.text = rag.chunks[part.idx]
    /\ part.document_name = MetaName(rag.metadata[part.idx])

\* C15 as claimed: in the strong, the weak and the sampled tier every chunk
\* of the context follows a tag with the chunk's document name and its
\* ordinal, the ordinals running 1..n in context order.
C15_TagsNameAndOrdinalInEveryTier ==
    (FileAsked /\ allow_external_calls /\ Generated) =>
        \A i \in 1..Len(document_context) :
            /\ TagNamesDocument(document_context[i])
            /\ document_context[i].ordinal = i

\* C15, amended: every chunk of the context follows a tag with the chunk's
\* document name ("Document" when the metadata has none); in the strong and
\* the weak tier the tag is "[Source i: name]" with the ordinals running
\* 1..n in context order, in the sampled tier it is "[From document: name]"
\* without an ordinal.
C15_SourceTags ==
    (FileAsked /\ allow_external_calls /\ Generated) =>
        \A i \in 1..Len(document_context) :
            /\ TagNamesDocument(document_context[i])
            /\ IF FromRetrieved
               THEN /\ document_context[i].label = "Source"
                    /\ document_context[i].ordinal = i
               ELSE /\ document_context[i].label = "From document"
                    /\ document_context[i].ordinal = 0

\* A context of three sampled chunks, one of them without a document name.
C15_Witness ==
    /\ FileAsked /\ allow_external_calls /\ Generated
    /\ ~FromRetrieved
    /\ Len(document_context) = 3
    /\ \E i \in 1..3 : document_context[i].document_name = "Document"

C17_StoredSizeIsChunkCount ==
    (/\ clock > 0 /\ rp.pc = "idle"
     /\ store_loaded.at = "idle" /\ store_loaded.now = rp.now)
    => /\ Cardinality(DOMAIN fs_docs) = Len(rp.chunks)
       /\ chunk_count = Len(rp.chunks)
       /\ Len(store_loaded.chunks) = Len(rp.chunks)
       /\ Len(store_loaded.embeddings) = Len(rp.chunks)
       /\ Len(store_loaded.metadata) = Len(rp.chunks)

----------------------------------------------------------------------------
\* Properties of FileQA.load_text.

EmptyTextLoaded ==
    /\ system = "FileQA" /\ pc = "loaded"
    /\ load_result.text \in {"empty", "whitespace"}
    /\ ~load_result.had_chunks

\* C18 as claimed: load_text of an empty or whitespace-only text, on a
\* system without loaded chunks, yields zero chunks and returns no failure
\* result.
C18_EmptyTextIsNoFailure ==
    EmptyTextLoaded => (rag.chunks = <<>> /\ load_result.success)

\* C18, amended: load_text of an empty or whitespace-only text, on a system
\* without loaded chunks, yields zero chunks and returns (it does not
\* raise) the failure result "RAG system loaded but no chunks were
\* created".
C18_EmptyTextIsReportedAsFailure ==
    EmptyTextLoaded =>
        /\ rag.chunks = <<>>
        /\ ~load_result.success
        /\ load_result.error = "no_chunks"

\* A whitespace-only text was loaded into a system without chunks.
C18_Witness == EmptyTextLoaded /\ load_result.text = "whitespace"

----------------------------------------------------------------------------
\* Properties of get_or_init_summarizer.

\* C19: however concurrent calls of get_or_init_summarizer interleave,
\* MedicalSummarizer is constructed successfully at most once and every
\* caller that returns holds that one instance, which is the global handle;
\* while no construction has succeeded the handle is unset; a thread whose
\* construction raised does not hold the lock, and the lock is held only by
\* a thread inside the with statement, so a later call can construct.
C19_LazySingleton ==
    /\ constructed <= 1
    /\ summarizer = constructed
    /\ \A t \in Threads :
          /\ tpc[t] = "returned" => (got[t] = summarizer /\ got[t] # NoSummarizer)
          /\ tpc[t] = "raised" => got[t] = NoSummarizer
          /\ summarizer_init_lock = t <=> tpc[t] \in {"locked", "construct"}
    /\ summarizer_init_lock # NoThread => summarizer_init_lock \in Threads

\* Two constructions raised, a later call constructed the instance, and two
\* threads hold it while the third thread's call ended with the exception.
C19_Witness ==
    /\ failures = MaxFailures
    /\ constructed = 1
    /\ \E t1, t2, t3 \in Threads :
          /\ t1 # t2
          /\ tpc[t1] = "returned" /\ tpc[t2] = "returned" /\ tpc[t3] = "raised"

----------------------------------------------------------------------------
\* Properties of privacy mode.

\* The texts of one external call: the question and the chunks of the
\* context of a generation call, the document of a summary call.
OutboundTexts(c) ==
    IF c.via = "api_summarize" \/ c.prompt = "summary"
    THEN {c.document[i] : i \in 1..Len(c.document)}
    ELSE {c.question} \cup {c.context[i].text : i \in 1..Len(c.context)}

\* C20: with privacy_mode on, no text that ask_question or
\* summarize_document passes to an external service - Gemini on the direct
\* path and on the fallback path, the /summarize call of the API - holds a
\* personal identifier in the clear: every such text went through
\* redact_text.
C20_OutboundTextIsRedacted ==
    (system = "FileQA" /\ privacy_mode /\ pc \in {"returned", "summarized"}) =>
        \A c \in {llm_calls[i] : i \in 1..Len(llm_calls)} :
            \A t \in OutboundTexts(c) : t.mark # "raw"

\* C21: with privacy_mode on, the sources of every result of
\* FileQA.ask_question - the success path, the local-only path, the
\* generation-error path - hold only chunks that went through redaction:
\* no source carries a personal identifier in the clear.
C21_ReturnedSourcesAreRedacted ==
    (FileAsked /\ privacy_mode) =>
        \A i \in 1..Len(result.sources) : result.sources[i].chunk.mark # "raw"

----------------------------------------------------------------------------
\* Properties of the local-only mode.

\* C22: with allow_external_calls off, no ask_question and no
\* summarize_document makes a Gemini generation call or the call of the
\* summarization API; an ask_question that gets past the checks of the
\* Gemini wrapper and of the loaded documents makes one retrieval, with
\* min_score 0.0 and k = min(rag_k, 5), and its answer quotes at most three
\* excerpts of at most 600 characters each.
C22_LocalOnlyMode ==
    (system = "FileQA" /\ ~allow_external_calls /\ pc \in {"returned", "summarized"}) =>
        /\ llm_calls = <<>>
        /\ Len(retrieve_calls) <= 1
        /\ (pc = "returned" /\ result.answer \notin {"unavailable", "no_documents"})
               => Len(retrieve_calls) = 1
        /\ \A i \in 1..Len(retrieve_calls) :
              /\ retrieve_calls[i].min_score = 0
              /\ retrieve_calls[i].k = Min(rag_k, LocalKCap)
        /\ Len(result.excerpts) <= ExcerptMax
        /\ \A i \in 1..Len(result.excerpts) : result.excerpts[i].chars <= ExcerptChars

\* A local answer with more sources than excerpts, one of them cut.
C22_Witness ==
    /\ FileAsked /\ ~allow_external_calls
    /\ result.answer = "local_excerpts"
    /\ Len(result.sources) > ExcerptMax
    /\ Len(result.excerpts) = ExcerptMax
    /\ \E i \in 1..Len(result.excerpts) :
          /\ result.excerpts[i].chars = ExcerptChars
          /\ Chars(result.sources[i].chunk) > ExcerptChars

\* summarize_document returned the local excerpt of loaded chunks.
C22_WitnessSummary ==
    /\ system = "FileQA" /\ ~allow_external_calls /\ pc = "summarized"
    /\ result.answer = "summary_local_excerpt"
    /\ rag.chunks # <<>>

----------------------------------------------------------------------------
\* Properties of the document processor.

----------------------------------------------------------------------------
\* Properties of VectorDatabase.add_documents.

\* add_documents was called with an empty texts or embeddings, or with lists
\* of different lengths.
AddRejected ==
    /\ vdb_out.op = "add_documents"
    /\ \/ vdb_out.texts = 0 \/ vdb_out.embeddings = 0
       \/ vdb_out.texts # vdb_out.embeddings
       \/ vdb_out.texts # vdb_out.metadatas

\* C24: add_documents called with empty texts or embeddings, or with texts,
\* embeddings and metadatas of different lengths, fails with a ValueError
\* that the caller observes and adds no document: the collection is as it
\* was before the call.
C24_RejectedAddRaisesValueError ==
    AddRejected =>
        /\ vdb_out.raised
        /\ vdb_out.exception.class = "ValueError"
        /\ collection = vdb_out.before

\* C24, amended: such a call fails and adds no document, and what the caller
\* observes is not a ValueError: safe_execute catches the ValueError and
\* raises a DataProcessingError (a LabLensError, no ValueError) with
\* error_code DATA_PROCESSING_FAILED in its place.
C24_RejectedAddRaisesDataProcessingError ==
    AddRejected =>
        /\ vdb_out.raised
        /\ vdb_out.exception = Exc("DataProcessingError", "DATA_PROCESSING_FAILED")
        /\ collection = vdb_out.before

\* A call with lists of different lengths, none empty, was rejected on a
\* collection that holds documents.
C24_Witness ==
    /\ AddRejected
    /\ vdb_out.texts > 0 /\ vdb_out.embeddings > 0
    /\ vdb_out.texts = vdb_out.embeddings
    /\ vdb_out.raised
    /\ collection # <<>>

----------------------------------------------------------------------------
\* Properties of InferenceMonitor.

\* No call of record or status is under way.
MonQuiet == \A t \in MonThreads : mpc[t] = "idle"

\* C25: InferenceMonitor is thread-safe.  For an enabled monitor: errors is
\* at most total in every state; once the N calls of record have returned,
\* total is N, errors is the number of them with success = False and the n
\* of each OnlineStats is total; and what a concurrent status() returns never
\* shows the counters of a record that is applied in part.
C25_MonitorThreadSafe ==
    mon_enabled =>
        /\ mon.errors <= mon.total
        /\ MonQuiet =>
              /\ mon.total = mdone.calls
              /\ mon.errors = mdone.failed
              /\ mon.input_chars = mon.total
              /\ mon.input_words = mon.total
              /\ mon.output_chars = mon.total
        /\ \A t \in MonThreads :
              mstatus[t].read =>
                  /\ mstatus[t].errors <= mstatus[t].total
                  /\ mstatus[t].input_chars = mstatus[t].total
                  /\ mstatus[t].input_words = mstatus[t].total
                  /\ mstatus[t].output_chars = mstatus[t].total
                  /\ mstatus[t].sample_size = mstatus[t].total

\* Three calls of record have returned, one of them with success = False,
\* and a status() that waited for the lock while a record held it has
\* returned the counters of two calls.
C25_Witness ==
    /\ mon_enabled /\ MonQuiet
    /\ mdone.calls = MaxRecords /\ mdone.failed = 1
    /\ mon.total = MaxRecords
    /\ \E t \in MonThreads : mstatus[t].read /\ mstatus[t].total = 2

----------------------------------------------------------------------------
\* Properties of safe_execute.

\* C26: safe_execute (reraise=True) preserves the category of an error:
\* when the decorated function raises an exception that is a LabLensError
\* subclass - one it raised itself or one the wrapper of a nested decorated
\* call raised - the wrapper raises an exception of that same subclass with
\* the same error_code, so the caller receives it.
C26_CategoryPreserved ==
    \A i \in 1..Len(exc_trail) :
        (i < Len(exc_trail) /\ exc_trail[i] \in LabLensSubclasses)
            => exc_trail[i + 1] = exc_trail[i]

----------------------------------------------------------------------------
\* Properties of the chats of the web app.

\* The index of what was loaded in chat c by the last "Load Documents".
LoadedInChat(c) ==
    LoadCachedIndex(exported[c].chunks, exported[c].embeddings, exported[c].metadata)

\* C27: whenever a question is handed to qa_system.ask_question, qa_chat_id
\* is current_chat_id and the index of the QA system holds only chunks of
\* the current chat: it is empty, or what was loaded in the current chat,
\* or what is restored from the chunks persisted for the current chat.
C27_ChatIndexBinding ==
    web_asked # NoAsk =>
        /\ web_asked.qa_chat_id = web_asked.current_chat_id
        /\ web_asked.index \in {EmptyIndex, LoadedInChat(web_asked.current_chat_id),
                                 RestoredIndex(web_asked.current_chat_id)}

\* A question is asked in a chat that was switched to, with its restored
\* index, while the session has a second chat with other documents.
C27_Witness ==
    /\ web_asked # NoAsk
    /\ session.restored
    /\ web_asked.index # EmptyIndex
    /\ \E c \in session.chats :
          /\ c # web_asked.current_chat_id
          /\ exported[c] # NoPayload
          /\ LoadedInChat(c).chunks # web_asked.index.chunks
          /\ RestoredIndex(c).chunks # web_asked.index.chunks

----------------------------------------------------------------------------
\* Properties of the answer_source label.

\* C28: whenever FileQA.ask_question returns answer_source
\* 'general_knowledge', the context given to the generation call held no
\* text of a document chunk: the document context was empty.
C28_GeneralKnowledgeHasNoContext ==
    (FileAsked /\ result.answer_source = "general_knowledge") =>
        /\ document_context = <<>>
        /\ \A i \in 1..Len(llm_calls) : llm_calls[i].context = <<>>
=============================================================================
